---- MODULE Spec2Model ----
(***************************************************************************)
(* LockFreeWorkQueue of src/src/concurrent_optimization.rs: the bounded    *)
(* pending store (crossbeam ArrayQueue), the unbounded completed store     *)
(* (crossbeam SegQueue) and the atomic counters, with every public method  *)
(* cut at its atomic operations so that callers on several threads         *)
(* interleave exactly where the code allows it.                            *)
(*                                                                         *)
(* A thread is idle (between calls) or inside one method; pc[t] names the  *)
(* next atomic operation of the method and frame[t] holds its locals.      *)
(* The first atomic operation of a method is taken together with the call  *)
(* and the last one together with the return: what lies between a call and *)
(* the first shared access, or between the last one and the return, is     *)
(* thread-local and invisible to every other thread.                       *)
(*                                                                         *)
(* AtomicUsize values are kept as their signed residue modulo 2^64: the    *)
(* wrapping fetch_sub of a zero counter is recorded as -1, which stands    *)
(* for usize::MAX.  No counter of the model moves further than a handful   *)
(* of steps from zero, so residues never collide.                          *)
(***************************************************************************)
EXTENDS Integers, Sequences, FiniteSets, TLC

\* ---------------------------------------------------------------- bounds
MaxCap == 2          \* capacities 1..MaxCap are explored
MaxJobs == 3         \* enqueue_work calls per behaviour
MaxPurgeJobs == 2    \* the same, where clear_stale_work runs on several threads
MaxVersion == 1      \* Work.version ranges over 0..MaxVersion
MaxBumps == 2        \* update_work_version calls per behaviour
MaxResults == 2      \* submit_result calls per behaviour
MaxCount == 2        \* get_results is called with max_count in 0..MaxCount
NumThreads == 2      \* caller threads of the concurrent specifications
NumProducers == 2    \* producer threads of test_concurrent_queue_access
JobsPerProducer == 2 \* jobs each producer enqueues
NumConsumers == 2    \* consumer threads of test_concurrent_queue_access

VARIABLES
    pending_work,         \* ArrayQueue<Arc<Work>>: sequence, head is the oldest
    completed_work,       \* SegQueue<MiningResult>: sequence, head is the oldest
    active_work_count,
    total_enqueued,
    total_dequeued,
    queue_full_count,
    current_work_version,
    max_queue_size,
    pc,                   \* per thread: "idle" or the next atomic operation
    frame,                \* per thread: the locals of the method it is in
    call,                 \* per thread: the method last called and the queue as it was then
    ret,                  \* per thread: what the last finished call returned
    next_id,              \* number of Work values created by callers so far
    next_result,          \* number of MiningResult values created by callers so far
    bumps,                \* number of update_work_version calls so far
    accepted,             \* jobs whose push succeeded, in push order
    rejected,             \* jobs handed back by enqueue_work, in order
    dequeued,             \* jobs dequeue_work has returned, in order of return
    dropped,              \* jobs clear_stale_work removed for good, in order
    cleared_total,        \* sum of the counts returned by clear_stale_work
    submitted,            \* results pushed by submit_result, in push order
    taken                 \* results get_result / get_results have returned, in order of return

shared == <<pending_work, completed_work, active_work_count, total_enqueued,
            total_dequeued, queue_full_count, current_work_version, max_queue_size>>
ghost == <<next_id, next_result, bumps, accepted, rejected, dequeued, dropped,
           cleared_total, submitted, taken>>

\* The worker (SoftwareDevice of src/src/device.rs) and the aggregator
\* (SoftwareMiningCore of src/src/core.rs) built on top of the queue.
VARIABLES
    devices,              \* per device id: the fields of one SoftwareDevice
    tasks,                \* the loop tasks tokio::spawn has created, in spawn order
    channel,              \* mpsc::unbounded_channel: the results sent and not yet received
    collector,            \* the core's running flag and the task of start_result_collection
    collected_results,    \* SoftwareMiningCore.collected_results: Vec<MiningResult>
    owner,                \* the caller of the device and core methods: position and locals
    history               \* what was found, sent, pulled and collected; the last finished call

worker == <<devices, tasks, channel, collector, collected_results, owner, history>>

vars == <<shared, pc, frame, call, ret, ghost, worker>>

\* No device has been created: the state of the worker variables wherever the queue is
\* exercised on its own.
NoWorker ==
    /\ devices = <<>>
    /\ tasks = <<>>
    /\ channel = <<>>
    /\ collector = [running |-> FALSE, pc |-> "none", result |-> <<>>, accepted_work |-> 0]
    /\ collected_results = <<>>
    /\ owner = [pc |-> "idle"]
    /\ history = <<>>

\* ---------------------------------------------------------------- values
Threads == DOMAIN pc

NoWork == [id |-> 0, version |-> 0]

Work(i, v) == [id |-> i, version |-> v]

MiningResult(i) == [id |-> i]

Unit == [tag |-> "Unit", val |-> 0]
Ok == [tag |-> "Ok", val |-> 0]
Err(w) == [tag |-> "Err", val |-> w]
Some(x) == [tag |-> "Some", val |-> x]
None == [tag |-> "None", val |-> 0]
Value(x) == [tag |-> "Value", val |-> x]

\* The locals of a method die when it returns; the loop counters of the test threads
\* (j, consumed) live on.
Returned(f) ==
    [f EXCEPT !.work = NoWork, !.valid_version = 0, !.cleared_count = 0,
              !.max_count = 0, !.results = <<>>, !.stats = <<>>]

EmptyFrame ==
    [work |-> NoWork, valid_version |-> 0, cleared_count |-> 0, temp_works |-> <<>>,
     max_count |-> 0, results |-> <<>>, stats |-> <<>>, j |-> 0, consumed |-> 0]

\* The queue as a caller finds it when it enters a method.
Snapshot ==
    [pending_work |-> pending_work, completed_work |-> completed_work,
     active_work_count |-> active_work_count, total_enqueued |-> total_enqueued,
     total_dequeued |-> total_dequeued, queue_full_count |-> queue_full_count,
     current_work_version |-> current_work_version]

NoSnapshot ==
    [pending_work |-> <<>>, completed_work |-> <<>>, active_work_count |-> 0,
     total_enqueued |-> 0, total_dequeued |-> 0, queue_full_count |-> 0,
     current_work_version |-> 0]

\* A call that another thread has interleaved with: what the caller found at entry says
\* nothing about what it finds at return, and is forgotten.
Disturbed(c) == [c EXCEPT !.quiet = FALSE, !.pre = NoSnapshot]

\* Thread t enters method `name` with argument `arg` (0 when the method takes none).
Called(t, name, arg) ==
    /\ call' = [u \in Threads |->
                   IF u = t
                   THEN [op |-> name, arg |-> arg, quiet |-> TRUE, pre |-> Snapshot,
                         base |-> Len(dropped)]
                   ELSE Disturbed(call[u])]
    /\ UNCHANGED worker

\* Thread t takes a further step of the method it is in.
Stepped(t) ==
    /\ call' = [u \in Threads |-> IF u = t THEN call[u] ELSE Disturbed(call[u])]
    /\ UNCHANGED worker

\* ---------------------------------------------------------------- crossbeam queues
\* ArrayQueue::push: appends unless the queue holds `cap` elements, then hands the value back.
ArrayQueuePush(q, cap, x) ==
    IF Len(q) < cap THEN [ok |-> TRUE, q |-> Append(q, x)] ELSE [ok |-> FALSE, q |-> q]

\* ArrayQueue::pop / SegQueue::pop: removes the oldest element.
QueuePop(q) == Tail(q)

\* SegQueue::push: unbounded append.
SegQueuePush(q, x) == Append(q, x)

\* ---------------------------------------------------------------- enqueue_work
PendingPushUnbounded(q, cap, work) == [ok |-> TRUE, q |-> Append(q, work)]

PendingPushFront(q, cap, work) ==
    IF Len(q) < cap THEN [ok |-> TRUE, q |-> <<work>> \o q] ELSE [ok |-> FALSE, q |-> q]

\* line 140: the push into the bounded pending store.
PendingPush(q, cap, work) == ArrayQueuePush(q, cap, work)

\* lines 145 and 150: what enqueue_work returns for a job whose push succeeded or failed.
EnqueueReturn(pushed, work) == IF pushed THEN Ok ELSE Err(work)

\* lines 142, 143, 148 and 159: fetch_add(1) on a counter
FetchAdd1(n) == n + 1

\* lines 170, 215 and 223: fetch_sub(1) on the active count, wrapping
FetchSub1(n) == n - 1

CountFullSkipped(n) == n

\* line 148: self.queue_full_count.fetch_add(1)
CountFull(n) == FetchAdd1(n)

\* line 143: self.total_enqueued.fetch_add(1)
CountEnqueued(n) == FetchAdd1(n)

CountDequeuedSkipped(n) == n

\* line 159: self.total_dequeued.fetch_add(1)
CountDequeued(n) == FetchAdd1(n)

\* line 140: self.pending_work.push(work)
EnqueuePush(t, work) ==
    /\ pc[t] = "idle"
    /\ LET r == PendingPush(pending_work, max_queue_size, work)
       IN /\ pending_work' = r.q
          /\ pc' = [pc EXCEPT ![t] = IF r.ok THEN "enqueue_active" ELSE "enqueue_full"]
          /\ accepted' = IF r.ok THEN Append(accepted, work) ELSE accepted
          /\ rejected' = IF r.ok THEN rejected ELSE Append(rejected, work)
    /\ frame' = [frame EXCEPT ![t].work = work, ![t].j = frame[t].j + 1]
    /\ next_id' = next_id + 1
    /\ Called(t, "enqueue_work", work)
    /\ UNCHANGED <<completed_work, active_work_count, total_enqueued, total_dequeued,
                   queue_full_count, current_work_version, max_queue_size, ret,
                   next_result, bumps, dequeued, dropped, cleared_total, submitted, taken>>

\* enqueue_work called with a Work value the caller made: a fresh id, any version.
enqueue_work_push(t, limit) ==
    /\ next_id < limit
    /\ \E v \in 0..MaxVersion : EnqueuePush(t, Work(next_id + 1, v))

\* line 142: self.active_work_count.fetch_add(1)
enqueue_work_active(t) ==
    /\ pc[t] = "enqueue_active"
    /\ active_work_count' = FetchAdd1(active_work_count)
    /\ pc' = [pc EXCEPT ![t] = "enqueue_total"]
    /\ Stepped(t)
    /\ UNCHANGED <<pending_work, completed_work, total_enqueued, total_dequeued,
                   queue_full_count, current_work_version, max_queue_size, frame, ret, ghost>>

\* lines 143-145: self.total_enqueued.fetch_add(1); Ok(())
enqueue_work_total(t) ==
    /\ pc[t] = "enqueue_total"
    /\ total_enqueued' = CountEnqueued(total_enqueued)
    /\ pc' = [pc EXCEPT ![t] = "idle"]
    /\ ret' = [ret EXCEPT ![t] = EnqueueReturn(TRUE, frame[t].work)]
    /\ frame' = [frame EXCEPT ![t] = Returned(frame[t])]
    /\ Stepped(t)
    /\ UNCHANGED <<pending_work, completed_work, active_work_count, total_dequeued,
                   queue_full_count, current_work_version, max_queue_size, ghost>>

\* lines 147-150: self.queue_full_count.fetch_add(1); Err(work)
enqueue_work_full(t) ==
    /\ pc[t] = "enqueue_full"
    /\ queue_full_count' = CountFull(queue_full_count)
    /\ pc' = [pc EXCEPT ![t] = "idle"]
    /\ ret' = [ret EXCEPT ![t] = EnqueueReturn(FALSE, frame[t].work)]
    /\ frame' = [frame EXCEPT ![t] = Returned(frame[t])]
    /\ Stepped(t)
    /\ UNCHANGED <<pending_work, completed_work, active_work_count, total_enqueued,
                   total_dequeued, current_work_version, max_queue_size, ghost>>

\* ---------------------------------------------------------------- dequeue_work
PendingPopKeeps(q) == q

\* line 157: the pop from the pending store (of a non-empty queue).
PendingPop(q) == QueuePop(q)

\* line 157: self.pending_work.pop(); on an empty queue the method returns None at once.
dequeue_work_pop(t) ==
    /\ pc[t] = "idle"
    /\ IF pending_work = <<>>
       THEN /\ pc' = pc
            /\ ret' = [ret EXCEPT ![t] = None]
            /\ UNCHANGED <<pending_work, frame>>
       ELSE /\ pending_work' = PendingPop(pending_work)
            /\ frame' = [frame EXCEPT ![t].work = Head(pending_work),
                                      ![t].consumed = frame[t].consumed + 1]
            /\ pc' = [pc EXCEPT ![t] = "dequeue_total"]
            /\ ret' = ret
    /\ Called(t, "dequeue_work", 0)
    /\ UNCHANGED <<completed_work, active_work_count, total_enqueued, total_dequeued,
                   queue_full_count, current_work_version, max_queue_size,
                   ghost>>

\* lines 159-161: self.total_dequeued.fetch_add(1); Some(work)
dequeue_work_total(t) ==
    /\ pc[t] = "dequeue_total"
    /\ total_dequeued' = CountDequeued(total_dequeued)
    /\ pc' = [pc EXCEPT ![t] = "idle"]
    /\ ret' = [ret EXCEPT ![t] = Some(frame[t].work)]
    /\ dequeued' = Append(dequeued, frame[t].work)
    /\ frame' = [frame EXCEPT ![t] = Returned(frame[t])]
    /\ Stepped(t)
    /\ UNCHANGED <<pending_work, completed_work, active_work_count, total_enqueued,
                   queue_full_count, current_work_version, max_queue_size,
                   next_id, next_result, bumps, accepted, rejected, dropped,
                   cleared_total, submitted, taken>>

\* ---------------------------------------------------------------- submit_result
\* line 169: self.completed_work.push(result), with a result the caller made.
submit_result_push(t) ==
    /\ pc[t] = "idle"
    /\ next_result < MaxResults
    /\ completed_work' = SegQueuePush(completed_work, MiningResult(next_result + 1))
    /\ submitted' = Append(submitted, MiningResult(next_result + 1))
    /\ next_result' = next_result + 1
    /\ pc' = [pc EXCEPT ![t] = "submit_active"]
    /\ Called(t, "submit_result", 0)
    /\ UNCHANGED <<pending_work, active_work_count, total_enqueued, total_dequeued,
                   queue_full_count, current_work_version, max_queue_size, frame, ret,
                   next_id, bumps, accepted, rejected, dequeued, dropped, cleared_total, taken>>

\* line 170: self.active_work_count.fetch_sub(1), wrapping
submit_result_active(t) ==
    /\ pc[t] = "submit_active"
    /\ active_work_count' = FetchSub1(active_work_count)
    /\ pc' = [pc EXCEPT ![t] = "idle"]
    /\ ret' = [ret EXCEPT ![t] = Unit]
    /\ Stepped(t)
    /\ UNCHANGED <<pending_work, completed_work, total_enqueued, total_dequeued,
                   queue_full_count, current_work_version, max_queue_size, frame, ghost>>

\* ---------------------------------------------------------------- get_result, get_results
\* line 176: what self.completed_work.pop() leaves in the store.
CompletedPop(q) == QueuePop(q)

\* line 176: self.completed_work.pop()
get_result(t) ==
    /\ pc[t] = "idle"
    /\ IF completed_work = <<>>
       THEN /\ ret' = [ret EXCEPT ![t] = None]
            /\ UNCHANGED <<completed_work, taken>>
       ELSE /\ ret' = [ret EXCEPT ![t] = Some(Head(completed_work))]
            /\ completed_work' = CompletedPop(completed_work)
            /\ taken' = Append(taken, Head(completed_work))
    /\ Called(t, "get_result", 0)
    /\ UNCHANGED <<pending_work, active_work_count, total_enqueued, total_dequeued,
                   queue_full_count, current_work_version, max_queue_size, pc, frame,
                   next_id, next_result, bumps, accepted, rejected, dequeued, dropped,
                   cleared_total, submitted>>

GetResultsContinuesInclusive(results, max_count) == Len(results) <= max_count

\* line 183: the loop `for _ in 0..max_count` goes on while fewer than max_count results are held.
GetResultsContinues(results, max_count) == Len(results) < max_count

\* lines 181-183: let mut results = Vec::with_capacity(max_count); a call with max_count = 0
\* returns the empty vector without touching the store.
get_results_begin(t) ==
    /\ pc[t] = "idle"
    /\ \E max_count \in 0..MaxCount :
         /\ frame' = [frame EXCEPT ![t].max_count = max_count, ![t].results = <<>>]
         /\ Called(t, "get_results", max_count)
         /\ IF GetResultsContinues(<<>>, max_count)
            THEN /\ pc' = [pc EXCEPT ![t] = "get_results_pop"]
                 /\ ret' = ret
            ELSE /\ pc' = pc
                 /\ ret' = [ret EXCEPT ![t] = Value(<<>>)]
    /\ UNCHANGED <<shared, ghost>>

\* lines 184-191: one round of the loop: pop, then push to `results` or break; the method
\* returns when the loop ends.
get_results_pop(t) ==
    /\ pc[t] = "get_results_pop"
    /\ IF completed_work = <<>>
       THEN /\ pc' = [pc EXCEPT ![t] = "idle"]
            /\ ret' = [ret EXCEPT ![t] = Value(frame[t].results)]
            /\ taken' = taken \o frame[t].results
            /\ frame' = [frame EXCEPT ![t] = Returned(frame[t])]
            /\ UNCHANGED completed_work
       ELSE LET results == Append(frame[t].results, Head(completed_work))
            IN /\ completed_work' = CompletedPop(completed_work)
               /\ IF GetResultsContinues(results, frame[t].max_count)
                  THEN /\ frame' = [frame EXCEPT ![t].results = results]
                       /\ UNCHANGED <<pc, ret, taken>>
                  ELSE /\ frame' = [frame EXCEPT ![t] = Returned(frame[t])]
                       /\ taken' = taken \o results
                       /\ pc' = [pc EXCEPT ![t] = "idle"]
                       /\ ret' = [ret EXCEPT ![t] = Value(results)]
    /\ Stepped(t)
    /\ UNCHANGED <<pending_work, active_work_count, total_enqueued, total_dequeued,
                   queue_full_count, current_work_version, max_queue_size,
                   next_id, next_result, bumps, accepted, rejected, dequeued, dropped,
                   cleared_total, submitted>>

\* ---------------------------------------------------------------- work version
\* line 196: fetch_add returns the value the counter held before the addition.
FetchAddReturn(old, new) == old

\* line 196: self.current_work_version.fetch_add(1)
update_work_version(t) ==
    /\ pc[t] = "idle"
    /\ bumps < MaxBumps
    /\ current_work_version' = current_work_version + 1
    /\ ret' = [ret EXCEPT ![t] = Value(FetchAddReturn(current_work_version, current_work_version + 1))]
    /\ bumps' = bumps + 1
    /\ Called(t, "update_work_version", 0)
    /\ UNCHANGED <<pending_work, completed_work, active_work_count, total_enqueued,
                   total_dequeued, queue_full_count, max_queue_size, pc, frame,
                   next_id, next_result, accepted, rejected, dequeued, dropped,
                   cleared_total, submitted, taken>>

\* line 201: self.current_work_version.load()
current_version(t) ==
    /\ pc[t] = "idle"
    /\ ret' = [ret EXCEPT ![t] = Value(current_work_version)]
    /\ Called(t, "current_version", 0)
    /\ UNCHANGED <<shared, pc, frame, ghost>>

\* ---------------------------------------------------------------- clear_stale_work
IsValidWorkStrict(work, valid_version) == work.version > valid_version

\* line 211: work.version as usize >= valid_version
IsValidWork(work, valid_version) == work.version >= valid_version

\* line 214: cleared_count += 1 for a stale job
CountCleared(cleared_count) == cleared_count + 1

CountUnfitSkipped(cleared_count) == cleared_count

\* line 224: cleared_count += 1 for a valid job that did not fit back
CountUnfit(cleared_count) == cleared_count + 1

\* line 232: the method returns cleared_count.
ClearReturns(t, f) ==
    /\ pc' = [pc EXCEPT ![t] = "idle"]
    /\ ret' = [ret EXCEPT ![t] = Value(f.cleared_count)]
    /\ frame' = [frame EXCEPT ![t] = Returned(f)]
    /\ cleared_total' = cleared_total + f.cleared_count

\* lines 210-217: one round of `while let Some(work) = self.pending_work.pop()`, the
\* locals being f: a valid job goes to temp_works, a stale one is counted; the empty
\* queue ends the loop, and the method with it when there is nothing to put back.
ClearPop(t, f) ==
    IF pending_work = <<>>
    THEN /\ IF f.temp_works = <<>>
            THEN ClearReturns(t, f)
            ELSE /\ pc' = [pc EXCEPT ![t] = "clear_push"]
                 /\ frame' = [frame EXCEPT ![t] = f]
                 /\ UNCHANGED <<ret, cleared_total>>
         /\ UNCHANGED <<pending_work, dropped>>
    ELSE LET work == Head(pending_work)
         IN /\ pending_work' = PendingPop(pending_work)
            /\ IF IsValidWork(work, f.valid_version)
               THEN /\ frame' = [frame EXCEPT ![t] =
                                    [f EXCEPT !.temp_works = Append(f.temp_works, work)]]
                    /\ pc' = [pc EXCEPT ![t] = "clear_pop"]
                    /\ dropped' = dropped
               ELSE /\ frame' = [frame EXCEPT ![t] =
                                    [f EXCEPT !.cleared_count = CountCleared(f.cleared_count)]]
                    /\ pc' = [pc EXCEPT ![t] = "clear_stale"]
                    /\ dropped' = Append(dropped, [work |-> work, by |-> t])
            /\ UNCHANGED <<ret, cleared_total>>

\* lines 206-210: the locals are initialised and the first pop is made.
clear_stale_work_begin(t) ==
    /\ pc[t] = "idle"
    /\ \E valid_version \in 0..(MaxVersion + 1) :
         /\ ClearPop(t, [frame[t] EXCEPT !.valid_version = valid_version,
                                         !.cleared_count = 0, !.temp_works = <<>>])
         /\ Called(t, "clear_stale_work", valid_version)
    /\ UNCHANGED <<completed_work, active_work_count, total_enqueued, total_dequeued,
                   queue_full_count, current_work_version, max_queue_size,
                   next_id, next_result, bumps, accepted, rejected, dequeued,
                   submitted, taken>>

\* line 210: a further pop of the first loop
clear_stale_work_pop(t) ==
    /\ pc[t] = "clear_pop"
    /\ ClearPop(t, frame[t])
    /\ Stepped(t)
    /\ UNCHANGED <<completed_work, active_work_count, total_enqueued, total_dequeued,
                   queue_full_count, current_work_version, max_queue_size,
                   next_id, next_result, bumps, accepted, rejected, dequeued,
                   submitted, taken>>

\* line 215: self.active_work_count.fetch_sub(1) for a stale job
clear_stale_work_stale(t) ==
    /\ pc[t] = "clear_stale"
    /\ active_work_count' = FetchSub1(active_work_count)
    /\ pc' = [pc EXCEPT ![t] = "clear_pop"]
    /\ Stepped(t)
    /\ UNCHANGED <<pending_work, completed_work, total_enqueued, total_dequeued,
                   queue_full_count, current_work_version, max_queue_size, frame, ret, ghost>>

\* lines 220-221: one round of `for work in temp_works`: self.pending_work.push(work)
clear_stale_work_push(t) ==
    /\ pc[t] = "clear_push"
    /\ LET work == Head(frame[t].temp_works)
           r == PendingPush(pending_work, max_queue_size, work)
           f == [frame[t] EXCEPT !.temp_works = Tail(frame[t].temp_works)]
       IN /\ pending_work' = r.q
          /\ IF r.ok
             THEN /\ dropped' = dropped
                  /\ IF f.temp_works = <<>>
                     THEN ClearReturns(t, f)
                     ELSE /\ frame' = [frame EXCEPT ![t] = f]
                          /\ UNCHANGED <<pc, ret, cleared_total>>
             ELSE /\ dropped' = Append(dropped, [work |-> work, by |-> t])
                  /\ frame' = [frame EXCEPT ![t] = f]
                  /\ pc' = [pc EXCEPT ![t] = "clear_full"]
                  /\ UNCHANGED <<ret, cleared_total>>
    /\ Stepped(t)
    /\ UNCHANGED <<completed_work, active_work_count, total_enqueued, total_dequeued,
                   queue_full_count, current_work_version, max_queue_size,
                   next_id, next_result, bumps, accepted, rejected, dequeued,
                   submitted, taken>>

\* lines 223-224: self.active_work_count.fetch_sub(1); cleared_count += 1 for a job that
\* did not fit back
clear_stale_work_full(t) ==
    /\ pc[t] = "clear_full"
    /\ active_work_count' = FetchSub1(active_work_count)
    /\ LET f == [frame[t] EXCEPT !.cleared_count = CountUnfit(frame[t].cleared_count)]
       IN IF f.temp_works = <<>>
          THEN ClearReturns(t, f)
          ELSE /\ pc' = [pc EXCEPT ![t] = "clear_push"]
               /\ frame' = [frame EXCEPT ![t] = f]
               /\ UNCHANGED <<ret, cleared_total>>
    /\ Stepped(t)
    /\ UNCHANGED <<pending_work, completed_work, total_enqueued, total_dequeued,
                   queue_full_count, current_work_version, max_queue_size,
                   next_id, next_result, bumps, accepted, rejected, dequeued, dropped,
                   submitted, taken>>

\* ---------------------------------------------------------------- get_stats
\* lines 238-244: the k-th field of the WorkQueueStats literal, each its own atomic read.
StatsField(k) ==
    CASE k = 1 -> Len(pending_work)
      [] k = 2 -> active_work_count
      [] k = 3 -> Len(completed_work)
      [] k = 4 -> total_enqueued
      [] k = 5 -> total_dequeued
      [] k = 6 -> queue_full_count
      [] k = 7 -> current_work_version

\* lines 237-246: the snapshot assembled from the seven reads and the capacity.
WorkQueueStats(s) ==
    [pending_count |-> s[1], active_count |-> s[2], completed_count |-> s[3],
     total_enqueued |-> s[4], total_dequeued |-> s[5], queue_full_count |-> s[6],
     current_version |-> s[7], max_queue_size |-> max_queue_size]

\* line 238: pending_count: self.pending_work.len()
get_stats_begin(t) ==
    /\ pc[t] = "idle"
    /\ frame' = [frame EXCEPT ![t].stats = <<StatsField(1)>>]
    /\ pc' = [pc EXCEPT ![t] = "get_stats"]
    /\ Called(t, "get_stats", 0)
    /\ UNCHANGED <<shared, ret, ghost>>

\* lines 239-246: the next read; after the last one the snapshot is returned.
get_stats_read(t) ==
    /\ pc[t] = "get_stats"
    /\ LET s == Append(frame[t].stats, StatsField(Len(frame[t].stats) + 1))
       IN IF Len(s) < 7
          THEN /\ frame' = [frame EXCEPT ![t].stats = s]
               /\ UNCHANGED <<pc, ret>>
          ELSE /\ frame' = [frame EXCEPT ![t] = Returned(frame[t])]
               /\ pc' = [pc EXCEPT ![t] = "idle"]
               /\ ret' = [ret EXCEPT ![t] = Value(WorkQueueStats(s))]
    /\ Stepped(t)
    /\ UNCHANGED <<shared, ghost>>

\* ---------------------------------------------------------------- test_concurrent_queue_access
Producers == 1..NumProducers
Consumers == (NumProducers + 1)..(NumProducers + NumConsumers)

\* lines 500-504: the consumers together take every job the producers enqueue; the test
\* gives each of its 2 consumers half of the 400 jobs.
Quota(t) ==
    LET total == NumProducers * JobsPerProducer
        c == t - NumProducers
    IN (total \div NumConsumers) + (IF c <= total % NumConsumers THEN 1 ELSE 0)

\* lines 491-494: for j in 0..100 { let _ = queue_clone.enqueue_work(work); }
producer_enqueue(t) ==
    /\ t \in Producers
    /\ frame[t].j < JobsPerProducer
    /\ EnqueuePush(t, Work(next_id + 1, 0))

\* lines 504-510: while consumed < 200 { if let Some(_) = dequeue_work() { consumed += 1 } }
consumer_dequeue(t) ==
    /\ t \in Consumers
    /\ frame[t].consumed < Quota(t)
    /\ dequeue_work_pop(t)

\* lines 516-518: handle.join() has returned for every thread.
AllJoined ==
    /\ \A t \in Producers : pc[t] = "idle" /\ frame[t].j = JobsPerProducer
    /\ \A t \in Consumers : pc[t] = "idle" /\ frame[t].consumed = Quota(t)

\* ---------------------------------------------------------------- specifications
\* lines 125-136: LockFreeWorkQueue::new(max_queue_size), used by n threads that have
\* not called anything yet.  ArrayQueue::new panics on capacity 0.
InitQueue(n) ==
    /\ max_queue_size \in 1..MaxCap
    /\ pending_work = <<>>
    /\ completed_work = <<>>
    /\ active_work_count = 0
    /\ total_enqueued = 0
    /\ total_dequeued = 0
    /\ queue_full_count = 0
    /\ current_work_version = 0
    /\ pc = [t \in 1..n |-> "idle"]
    /\ frame = [t \in 1..n |-> EmptyFrame]
    /\ ret = [t \in 1..n |-> Unit]
    /\ call = [t \in 1..n |-> [op |-> "none", arg |-> 0, quiet |-> TRUE, pre |-> NoSnapshot, base |-> 0]]
    /\ next_id = 0
    /\ next_result = 0
    /\ bumps = 0
    /\ accepted = <<>>
    /\ rejected = <<>>
    /\ dequeued = <<>>
    /\ dropped = <<>>
    /\ cleared_total = 0
    /\ submitted = <<>>
    /\ taken = <<>>
    /\ NoWorker

Init == InitQueue(NumThreads)

InitSeq == InitQueue(1)

InitProdCons == InitQueue(NumProducers + NumConsumers)

\* Several threads enqueue, dequeue and clear stale work.
Next ==
    \E t \in Threads :
        \/ enqueue_work_push(t, MaxPurgeJobs)
        \/ enqueue_work_active(t)
        \/ enqueue_work_total(t)
        \/ enqueue_work_full(t)
        \/ dequeue_work_pop(t)
        \/ dequeue_work_total(t)
        \/ clear_stale_work_begin(t)
        \/ clear_stale_work_pop(t)
        \/ clear_stale_work_stale(t)
        \/ clear_stale_work_push(t)
        \/ clear_stale_work_full(t)

Spec == Init /\ [][Next]_vars

\* Several threads enqueue and dequeue; nothing is cleared.
NextNoPurge ==
    \E t \in Threads :
        \/ enqueue_work_push(t, MaxJobs)
        \/ enqueue_work_active(t)
        \/ enqueue_work_total(t)
        \/ enqueue_work_full(t)
        \/ dequeue_work_pop(t)
        \/ dequeue_work_total(t)

SpecNoPurge == Init /\ [][NextNoPurge]_vars

\* The producer and consumer threads of test_concurrent_queue_access.
NextProdCons ==
    \E t \in Threads :
        \/ producer_enqueue(t)
        \/ enqueue_work_active(t)
        \/ enqueue_work_total(t)
        \/ enqueue_work_full(t)
        \/ consumer_dequeue(t)
        \/ dequeue_work_total(t)

SpecProdCons == InitProdCons /\ [][NextProdCons]_vars

\* Several threads submit and take results.
NextResults ==
    \E t \in Threads :
        \/ submit_result_push(t)
        \/ submit_result_active(t)
        \/ get_result(t)
        \/ get_results_begin(t)
        \/ get_results_pop(t)

SpecResults == Init /\ [][NextResults]_vars

\* One caller enqueues, dequeues, clears stale work, moves the work version and reads
\* the statistics.
NextSeq ==
    \E t \in Threads :
        \/ enqueue_work_push(t, MaxJobs)
        \/ enqueue_work_active(t)
        \/ enqueue_work_total(t)
        \/ enqueue_work_full(t)
        \/ dequeue_work_pop(t)
        \/ dequeue_work_total(t)
        \/ update_work_version(t)
        \/ current_version(t)
        \/ clear_stale_work_begin(t)
        \/ clear_stale_work_pop(t)
        \/ clear_stale_work_stale(t)
        \/ clear_stale_work_push(t)
        \/ get_stats_begin(t)
        \/ get_stats_read(t)

SpecSeq == InitSeq /\ [][NextSeq]_vars

\* ---------------------------------------------------------------- properties
Range(s) == {s[i] : i \in DOMAIN s}

NoDuplicates(s) == \A i, k \in DOMAIN s : i # k => s[i] # s[k]

IsPrefix(s, u) == Len(s) <= Len(u) /\ \A i \in DOMAIN s : s[i] = u[i]

Min(a, b) == IF a <= b THEN a ELSE b

AllIdle == \A t \in Threads : pc[t] = "idle"

\* Thread t has returned from method `name` and no other thread has moved since it
\* entered it.
ReturnedQuietly(t, name) == pc[t] = "idle" /\ call[t].op = name /\ call[t].quiet

\* Jobs a dequeue_work call has popped and not yet returned.
DequeueInFlight == {frame[t].work : t \in {u \in Threads : pc[u] = "dequeue_total"}}

\* Thread t makes the push of enqueue_work in this step.
EnqueuePushStep(t) == pc[t] = "idle" /\ pc'[t] \in {"enqueue_active", "enqueue_full"}

\* C1: the pending store never holds more than max_queue_size jobs, whatever the
\* interleaving of enqueue_work, dequeue_work and clear_stale_work; an enqueue_work that
\* finds max_queue_size jobs pending leaves the store as it is, can always go on to its
\* return (it waits for nothing) and returns Err with the very job it was given.
C1_Rejects ==
    \A t \in Threads :
        /\ (EnqueuePushStep(t) /\ Len(pending_work) = max_queue_size)
              => /\ pc'[t] = "enqueue_full"
                 /\ pending_work' = pending_work
                 /\ frame'[t].work = call'[t].arg
        /\ (pc[t] = "enqueue_full" /\ pc'[t] # pc[t])
              => /\ pc'[t] = "idle"
                 /\ ret'[t] = Err(call[t].arg)
                 /\ pending_work' = pending_work

C1_CapacityBound ==
    /\ [](Len(pending_work) <= max_queue_size)
    /\ [](\A t \in Threads : pc[t] = "enqueue_full" => ENABLED enqueue_work_full(t))
    /\ [][C1_Rejects]_vars

C1_Witness ==
    \E t \in Threads :
        /\ pc[t] = "idle" /\ call[t].op = "enqueue_work" /\ ret[t].tag = "Err"
        /\ Len(pending_work) = max_queue_size
        /\ ret[t].val \notin Range(pending_work)

\* C2: with enqueue_work and dequeue_work interleaved at will and nothing cleared, no
\* job is returned by two dequeue_work calls, every returned job was accepted by an
\* enqueue_work, and the jobs returned, those popped by a call still running and those
\* pending are together exactly the accepted jobs, each once.
C2_NoLossNoDuplicate ==
    LET out == dequeued \o pending_work
    IN /\ NoDuplicates([i \in DOMAIN out |-> out[i].id])
       /\ Range(dequeued) \subseteq Range(accepted)
       /\ Range(out) \cap DequeueInFlight = {}
       /\ Range(out) \cup DequeueInFlight = Range(accepted)
       /\ Len(out) + Cardinality(DequeueInFlight) = Len(accepted)
       /\ \A t \in Threads :
            (pc[t] = "idle" /\ call[t].op = "dequeue_work" /\ ret[t].tag = "Some")
                => ret[t].val \in Range(dequeued)

C2_Witness ==
    /\ Len(dequeued) >= 2
    /\ pending_work # <<>>
    /\ AllIdle

\* C3: in test_concurrent_queue_access, once every producer and consumer thread has
\* been joined, total_enqueued and total_dequeued both equal the number of jobs the
\* producers made, nothing was rejected, nothing is pending, and the consumers got
\* every job exactly once.
C3_ProducersConsumers ==
    AllJoined =>
        /\ total_enqueued = NumProducers * JobsPerProducer
        /\ total_dequeued = NumProducers * JobsPerProducer
        /\ rejected = <<>>
        /\ pending_work = <<>>
        /\ Len(dequeued) = NumProducers * JobsPerProducer
        /\ {dequeued[i].id : i \in DOMAIN dequeued} = 1..(NumProducers * JobsPerProducer)

C3_Witness == AllJoined /\ max_queue_size = 1

\* C4: one caller.  Enqueuing max_queue_size + 1 jobs before anything is dequeued or
\* cleared gives max_queue_size successes and one rejection, and queue_full_count is
\* then 1.  A rejected enqueue_work adds exactly 1 to queue_full_count and leaves the
\* pending store, the active count and total_enqueued as they were; an accepted one
\* adds exactly 1 to the active count and to total_enqueued and leaves queue_full_count.
C4_RejectionAccounting ==
    /\ (AllIdle /\ total_dequeued = 0 /\ dropped = <<>> /\ next_id = max_queue_size + 1)
          => /\ Len(accepted) = max_queue_size
             /\ Len(rejected) = 1
             /\ queue_full_count = 1
    /\ \A t \in Threads :
          ReturnedQuietly(t, "enqueue_work") =>
              LET pre == call[t].pre
              IN IF ret[t].tag = "Err"
                 THEN /\ queue_full_count = pre.queue_full_count + 1
                      /\ pending_work = pre.pending_work
                      /\ active_work_count = pre.active_work_count
                      /\ total_enqueued = pre.total_enqueued
                 ELSE /\ queue_full_count = pre.queue_full_count
                      /\ pending_work = Append(pre.pending_work, call[t].arg)
                      /\ active_work_count = pre.active_work_count + 1
                      /\ total_enqueued = pre.total_enqueued + 1

C4_Witness ==
    /\ max_queue_size = 2
    /\ next_id = max_queue_size + 1
    /\ total_dequeued = 0
    /\ dropped = <<>>
    /\ ReturnedQuietly(1, "enqueue_work")
    /\ ret[1].tag = "Err"

\* The example of the capacity-2 queue: jobs 1 and 2 were accepted, job 3 was rejected,
\* no further job was offered and nothing was cleared.
C5_Example ==
    /\ max_queue_size = 2
    /\ next_id = 3
    /\ Len(rejected) = 1
    /\ rejected[1].id = 3
    /\ dropped = <<>>

\* C5: one caller, nothing cleared.  dequeue_work returns the accepted jobs in the order
\* of their acceptance; on an empty store it returns None and changes neither the store
\* nor any counter, otherwise it returns the oldest pending job.  In the capacity-2
\* example the accepted jobs are 1 and 2, the dequeues return 1, then 2, then None, and
\* get_stats then reports pending 0, total_enqueued 2, total_dequeued 2, queue_full_count 1.
C5_SequentialOrder ==
    /\ dropped = <<>> => IsPrefix(dequeued, accepted)
    /\ \A t \in Threads :
          ReturnedQuietly(t, "dequeue_work") =>
              LET pre == call[t].pre
              IN IF pre.pending_work = <<>>
                 THEN ret[t] = None /\ Snapshot = pre
                 ELSE ret[t] = Some(Head(pre.pending_work))
    /\ C5_Example =>
          /\ [i \in DOMAIN accepted |-> accepted[i].id] = <<1, 2>>
          /\ Len(dequeued) = 2 => (dequeued = accepted /\ pending_work = <<>>)
          /\ \A t \in Threads :
                /\ (ReturnedQuietly(t, "dequeue_work") /\ call[t].pre.total_dequeued = 2)
                      => ret[t] = None
                /\ (ReturnedQuietly(t, "get_stats") /\ Len(dequeued) = 2)
                      => /\ ret[t].val.pending_count = 0
                         /\ ret[t].val.total_enqueued = 2
                         /\ ret[t].val.total_dequeued = 2
                         /\ ret[t].val.queue_full_count = 1

C5_Witness ==
    /\ C5_Example
    /\ dequeued = accepted
    /\ ReturnedQuietly(1, "get_stats")
    /\ ret[1].val.total_dequeued = 2

\* C6: a clear_stale_work(v) that no other call interleaves with removes from the
\* pending store exactly the jobs with version < v, keeps the others pending in their
\* order, returns the number of jobs removed and lowers the active count by it.
C6_PurgeExact ==
    \A t \in Threads :
        ReturnedQuietly(t, "clear_stale_work") =>
            LET pre == call[t].pre
                keep == SelectSeq(pre.pending_work, LAMBDA w : w.version >= call[t].arg)
                gone == SelectSeq(pre.pending_work, LAMBDA w : w.version < call[t].arg)
            IN /\ pending_work = keep
               /\ ret[t].val = Len(gone)
               /\ active_work_count = pre.active_work_count - Len(gone)
               /\ SubSeq(dropped, call[t].base + 1, Len(dropped))
                     = [i \in DOMAIN gone |-> [work |-> gone[i], by |-> t]]

C6_Witness ==
    /\ ReturnedQuietly(1, "clear_stale_work")
    /\ ret[1].val >= 1
    /\ pending_work # <<>>
    /\ \E i \in DOMAIN pending_work : pending_work[i].version = call[1].arg

\* Jobs a running clear_stale_work holds in temp_works.
ClearInFlight == UNION {Range(frame[t].temp_works) : t \in Threads}

DroppedWork == {dropped[i].work : i \in DOMAIN dropped}

\* The jobs thread t's last clear_stale_work call removed from the pending store for good.
DroppedByCall(t) == {i \in (call[t].base + 1)..Len(dropped) : dropped[i].by = t}

\* C7: clear_stale_work interleaved at will with enqueue_work, dequeue_work and other
\* clear_stale_work calls.  The count a call returns is the number of jobs it removed
\* from the pending store for good, the valid jobs that no longer fitted back included.
\* No accepted job disappears uncounted: it is pending, returned by a dequeue_work, held
\* by a running call or counted as cleared; and with no call running, the counts returned
\* add up to the jobs removed and the active count is the accepted jobs less these.
C7_PurgeUnderContention ==
    /\ \A t \in Threads :
          (pc[t] = "idle" /\ call[t].op = "clear_stale_work")
              => ret[t].val = Cardinality(DroppedByCall(t))
    /\ Range(accepted) = Range(pending_work) \cup Range(dequeued) \cup DequeueInFlight
                            \cup ClearInFlight \cup DroppedWork
    /\ AllIdle =>
          /\ cleared_total = Len(dropped)
          /\ Len(accepted) = Len(pending_work) + Len(dequeued) + cleared_total
          /\ active_work_count = Len(accepted) - cleared_total

C7_Witness ==
    \E t \in Threads :
        /\ AllIdle
        /\ call[t].op = "clear_stale_work"
        /\ \E i \in DroppedByCall(t) : dropped[i].work.version >= call[t].arg

\* C8: every job is stamped, when it is enqueued, with a version taken from the work
\* version counter: no accepted job carries a version above the counter, and a job
\* accepted later carries a strictly larger version than every job accepted before it.
C8_VersionsStrictlyIncrease ==
    /\ \A i \in DOMAIN accepted : accepted[i].version <= current_work_version
    /\ \A i, k \in DOMAIN accepted : i < k => accepted[i].version < accepted[k].version

\* C9: update_work_version advances the work version counter by exactly 1 and returns
\* the new version, the value current_version() reports right afterwards.
C9_BumpReturnsNew ==
    \A t \in Threads :
        ReturnedQuietly(t, "update_work_version") =>
            /\ current_work_version = call[t].pre.current_work_version + 1
            /\ ret[t].val = current_work_version

\* Results a running get_results call has popped and not yet returned.
ResultsInFlight == UNION {Range(frame[t].results) : t \in Threads}

\* C10: submit_result, get_result and get_results interleaved at will.  No result is
\* returned twice and none is lost: the results returned, those a running get_results
\* holds and those in the completed store are exactly the results submitted, each once,
\* and in submission order while a single thread makes all the calls.  A get_results(max)
\* that nothing interleaves with returns the oldest min(max, stored) results and leaves
\* the rest in the store; get_result returns the oldest result, or None on an empty store.
C10_ResultsNeverDropped ==
    /\ NoDuplicates(taken)
    /\ Range(taken) \cup ResultsInFlight \cup Range(completed_work) = Range(submitted)
    /\ Len(taken) + Cardinality(ResultsInFlight) + Len(completed_work) = Len(submitted)
    /\ \A t, u \in Threads :
          t # u => Range(frame[t].results) \cap Range(frame[u].results) = {}
    /\ \A t \in Threads :
          (\A u \in Threads \ {t} : call[u].op = "none")
              => taken \o frame[t].results \o completed_work = submitted
    /\ \A t \in Threads :
          LET pre == call[t].pre.completed_work
              n == Min(call[t].arg, Len(pre))
          IN /\ ReturnedQuietly(t, "get_results")
                   => /\ ret[t].val = SubSeq(pre, 1, n)
                      /\ completed_work = SubSeq(pre, n + 1, Len(pre))
             /\ ReturnedQuietly(t, "get_result")
                   => IF pre = <<>>
                      THEN ret[t] = None /\ completed_work = <<>>
                      ELSE ret[t] = Some(Head(pre)) /\ completed_work = Tail(pre)
             /\ ReturnedQuietly(t, "submit_result")
                   => /\ Len(completed_work) = Len(pre) + 1
                      /\ SubSeq(completed_work, 1, Len(pre)) = pre

C10_Witness ==
    \E t \in Threads :
        /\ ReturnedQuietly(t, "get_results")
        /\ call[t].arg = 1
        /\ Len(ret[t].val) = 1
        /\ completed_work # <<>>
        /\ \E u \in Threads \ {t} : call[u].op = "submit_result"

\* ======================================================================
\* SoftwareDevice (src/src/device.rs) and SoftwareMiningCore (src/src/core.rs)
\*
\* The owner is the caller that holds `&mut self` of a device (or of the core): it is
\* inside at most one method at a time.  The loop tasks created by tokio::spawn and the
\* collector task run beside it.  Every step is one call on a shared object (a queue
\* method, a statistics method, a channel operation, a flag or handle access); the
\* queue methods are taken whole here, their own interleavings being the subject of the
\* specifications above.
\* ======================================================================
MaxDeviceJobs == 2   \* submit_work calls per behaviour
MaxStarts == 2       \* start calls per behaviour (restart included)
MaxResets == 1       \* reset calls per behaviour
BatchSize == 2       \* hashes of one batch of mine_work / mine_work_static
MaxRounds == 1       \* batches the continuous loops run per behaviour
NumDevices == 2      \* devices of the core

\* LockFreeWorkQueue::new(3) of SoftwareDevice::new
DeviceQueueSize == 3

DeviceIds == DOMAIN devices

\* Room for the devices of a core and for the loop tasks a behaviour can spawn
DeviceSlots == 1..NumDevices

TaskSlots == 1..(IF MaxStarts > NumDevices THEN MaxStarts ELSE NumDevices)

\* A job as the device sees it: `target` is "any" when every digest meets it.
Job(i, v, target) == [id |-> i, version |-> v, target |-> target]

NoJob == [id |-> 0, version |-> 0, target |-> "none"]

\* MiningResult::new(work.id, device_id, nonce, hash, true); the nonce stands for the
\* result's identity.
Solution(work, device_id, nonce) ==
    [work_id |-> work.id, device_id |-> device_id, nonce |-> nonce, accepted |-> TRUE]

NoSolution == [work_id |-> 0, device_id |-> 0, nonce |-> 0, accepted |-> FALSE]

\* ---------------------------------------------------------------- the device's queue
\* LockFreeWorkQueue::new
NewWorkQueue(max_size) ==
    [pending_work |-> <<>>, completed_work |-> <<>>, active_work_count |-> 0,
     total_enqueued |-> 0, total_dequeued |-> 0, queue_full_count |-> 0,
     current_work_version |-> 0, max_queue_size |-> max_size]

\* enqueue_work on the queue q: the queue afterwards and what the method returns.
QueueEnqueue(q, work) ==
    LET r == PendingPush(q.pending_work, q.max_queue_size, work)
    IN IF r.ok
       THEN [q |-> [q EXCEPT !.pending_work = r.q,
                             !.active_work_count = FetchAdd1(@),
                             !.total_enqueued = CountEnqueued(@)],
             ret |-> EnqueueReturn(TRUE, work)]
       ELSE [q |-> [q EXCEPT !.queue_full_count = CountFull(@)],
             ret |-> EnqueueReturn(FALSE, work)]

\* dequeue_work on the queue q
QueueDequeue(q) ==
    IF q.pending_work = <<>>
    THEN [q |-> q, ret |-> None]
    ELSE [q |-> [q EXCEPT !.pending_work = PendingPop(@),
                          !.total_dequeued = CountDequeued(@)],
          ret |-> Some(Head(q.pending_work))]

\* update_work_version on the queue q
QueueUpdateVersion(q) ==
    [q |-> [q EXCEPT !.current_work_version = @ + 1],
     ret |-> FetchAddReturn(q.current_work_version, q.current_work_version + 1)]

\* The second loop of clear_stale_work: the jobs of temp_works are pushed back, one
\* that does not fit is counted.
RECURSIVE ClearPutBack(_, _, _)
ClearPutBack(q, temp_works, cleared_count) ==
    IF temp_works = <<>>
    THEN [q |-> q, ret |-> cleared_count]
    ELSE LET r == PendingPush(q.pending_work, q.max_queue_size, Head(temp_works))
         IN IF r.ok
            THEN ClearPutBack([q EXCEPT !.pending_work = r.q], Tail(temp_works),
                              cleared_count)
            ELSE ClearPutBack([q EXCEPT !.active_work_count = FetchSub1(@)],
                              Tail(temp_works), CountUnfit(cleared_count))

\* The first loop of clear_stale_work: every pending job is popped, a valid one is
\* kept aside, a stale one is counted.
RECURSIVE ClearTakeOut(_, _, _, _)
ClearTakeOut(q, valid_version, temp_works, cleared_count) ==
    IF q.pending_work = <<>>
    THEN ClearPutBack(q, temp_works, cleared_count)
    ELSE LET work == Head(q.pending_work)
             popped == [q EXCEPT !.pending_work = PendingPop(@)]
         IN IF IsValidWork(work, valid_version)
            THEN ClearTakeOut(popped, valid_version, Append(temp_works, work),
                              cleared_count)
            ELSE ClearTakeOut([popped EXCEPT !.active_work_count = FetchSub1(@)],
                              valid_version, temp_works, CountCleared(cleared_count))

\* clear_stale_work(valid_version) on the queue q
QueueClearStale(q, valid_version) == ClearTakeOut(q, valid_version, <<>>, 0)

\* ---------------------------------------------------------------- statistics
\* AtomicStats::new
NewAtomicStats ==
    [total_hashes |-> 0, accepted_work |-> 0, rejected_work |-> 0, hardware_errors |-> 0]

\* BatchStatsUpdater::new
NewBatchStatsUpdater ==
    [local_hashes |-> 0, local_accepted |-> 0, local_rejected |-> 0, local_errors |-> 0]

\* AtomicStats::record_hashes
RecordHashes(stats, hashes) == [stats EXCEPT !.total_hashes = @ + hashes]

\* AtomicStats::increment_accepted
IncrementAccepted(stats) == [stats EXCEPT !.accepted_work = @ + 1]

\* AtomicStats::reset: the four counters are stored as 0.
AtomicStatsReset(stats) ==
    [stats EXCEPT !.total_hashes = 0, !.accepted_work = 0, !.rejected_work = 0,
                  !.hardware_errors = 0]

\* BatchStatsUpdater::force_flush: what the locally held counts add to the statistics.
ForceFlush(stats, updater) ==
    [stats EXCEPT !.total_hashes = @ + updater.local_hashes,
                  !.accepted_work = @ + updater.local_accepted,
                  !.rejected_work = @ + updater.local_rejected,
                  !.hardware_errors = @ + updater.local_errors]

\* AtomicStats::to_device_stats_with_hashrate, as get_stats reports it
DeviceStats(d) == devices[d].atomic_stats

\* ---------------------------------------------------------------- construction
\* SoftwareDevice::new
NewDevice(error_rate) ==
    [status |-> "Uninitialized",
     mining_stop_signal |-> FALSE,
     mining_task_handle |-> 0,
     result_sender |-> FALSE,
     error_rate |-> error_rate,
     work_queue |-> NewWorkQueue(DeviceQueueSize),
     atomic_stats |-> NewAtomicStats,
     batch_stats_updater |-> NewBatchStatsUpdater]

IdleOwner ==
    [pc |-> "idle", op |-> "none", dev |-> 0, work |-> NoJob, new_version |-> 0,
     restart |-> FALSE]

NoCall == [op |-> "none", dev |-> 0, ret |-> Unit, pre |-> <<>>, snapshot |-> <<>>]

\* One finished batch: who ran it (0 is the owner's get_result), whether its first hash
\* had to be a solution, whether a channel was configured, whether a result was
\* delivered (sent or returned to the caller of get_result) and whether the accepted
\* counter was incremented.
NoBatch ==
    [by |-> 0, dev |-> 0, must |-> FALSE, sender |-> FALSE, delivered |-> FALSE,
     counted |-> FALSE]

NewHistory ==
    [next_job |-> 0, next_nonce |-> 0, starts |-> 0, resets |-> 0, rounds |-> 0,
     found |-> <<>>, sent |-> <<>>, pulled |-> <<>>, collected |-> <<>>,
     batch |-> NoBatch, last |-> NoCall]

\* The queue variables of the specifications above stay as they are constructed.
QueueUnused ==
    /\ max_queue_size = 1
    /\ pending_work = <<>>
    /\ completed_work = <<>>
    /\ active_work_count = 0
    /\ total_enqueued = 0
    /\ total_dequeued = 0
    /\ queue_full_count = 0
    /\ current_work_version = 0
    /\ pc = <<"idle">>
    /\ frame = <<EmptyFrame>>
    /\ ret = <<Unit>>
    /\ call = <<[op |-> "none", arg |-> 0, quiet |-> TRUE, pre |-> NoSnapshot, base |-> 0]>>
    /\ next_id = 0
    /\ next_result = 0
    /\ bumps = 0
    /\ accepted = <<>>
    /\ rejected = <<>>
    /\ dequeued = <<>>
    /\ dropped = <<>>
    /\ cleared_total = 0
    /\ submitted = <<>>
    /\ taken = <<>>

queue == <<shared, pc, frame, call, ret, ghost>>

\* ---------------------------------------------------------------- one batch of hashing
\* lines 509-514 (mine_work_static) and 594-599 (mine_work): a hash is a solution when it
\* meets the target and no error is simulated; `fastrand::f64() < error_rate` is never
\* true for error_rate 0.  With a target every digest meets and error rate 0 the first
\* hash of the batch is a solution.
MustHit(work, error_rate) == work.target = "any" /\ error_rate = 0

\* What one batch can come to: the loop breaks at the first solution, after hashes_done
\* hashes, or runs through the whole batch without one.
BatchOutcomes(work, error_rate) ==
    IF MustHit(work, error_rate)
    THEN {[found |-> TRUE, hashes_done |-> 1]}
    ELSE {[found |-> TRUE, hashes_done |-> h] : h \in 1..BatchSize}
         \cup {[found |-> FALSE, hashes_done |-> BatchSize]}

\* ---------------------------------------------------------------- bookkeeping
\* The lifecycle fields of device d and what its queue holds, as a method finds them.
DeviceSnapshot(d) ==
    [status |-> devices[d].status,
     mining_stop_signal |-> devices[d].mining_stop_signal,
     mining_task_handle |-> devices[d].mining_task_handle,
     current_work_version |-> devices[d].work_queue.current_work_version,
     pending_work |-> devices[d].work_queue.pending_work]

\* The owner enters a method of device d that takes several steps.
Entered(name, d, at, restart) ==
    [pc |-> at, op |-> name, dev |-> d, work |-> NoJob, new_version |-> 0,
     restart |-> restart]

\* The method the owner is in returns `value`; `pre` is what it found at entry, and
\* `snapshot` what get_stats would report at the moment of the return (kept for reset).
Finished(h, name, d, value, pre) ==
    [h EXCEPT !.last = [op |-> name, dev |-> d, ret |-> value, pre |-> pre,
                        snapshot |-> <<>>]]

\* tokio::spawn of the loop of start(): the closure captures clones of the queue, the
\* statistics, the stop flag and the result sender as it is at that moment.  The
\* continuous loop begins with no current job and nonce_iterator 0 (lines 727-728).
NewTask(d, kind, sender) ==
    [dev |-> d, kind |-> kind, pc |-> "check", aborted |-> FALSE, work |-> NoJob,
     sender |-> sender, found |-> NoSolution, hashes_done |-> 0,
     must |-> FALSE, delivered |-> FALSE, nonce_iterator |-> 0]

\* A loop that has been spawned and has neither ended nor been told to end.
IsActiveLoop(task) == task.pc \notin {"done", "cancelled"} /\ ~task.aborted

ActiveLoops(d) == {k \in DOMAIN tasks : tasks[k].dev = d /\ IsActiveLoop(tasks[k])}

\* ---------------------------------------------------------------- device methods
\* lines 462-464
set_result_sender(d) ==
    /\ d \in DeviceIds
    /\ owner.pc = "idle"
    /\ ~devices[d].result_sender
    /\ devices' = [devices EXCEPT ![d].result_sender = TRUE]
    /\ history' = Finished(history, "set_result_sender", d, Unit, <<>>)
    /\ UNCHANGED <<tasks, channel, collector, collected_results, owner, queue>>

\* lines 822-869: the status becomes Idle, whatever it was.
initialize(d) ==
    /\ d \in DeviceIds
    /\ owner.pc = "idle"
    /\ devices' = [devices EXCEPT ![d].status = "Idle"]
    /\ history' = Finished(history, "initialize", d, Ok, <<>>)
    /\ UNCHANGED <<tasks, channel, collector, collected_results, owner, queue>>

\* lines 890-955: the body of start(): status Running, the stop flag lowered, a new loop
\* spawned and its handle stored over whatever the field held.
StartLoop(d) ==
    /\ devices' = [devices EXCEPT ![d].status = "Running",
                                  ![d].mining_stop_signal = FALSE,
                                  ![d].mining_task_handle = Len(tasks) + 1]
    /\ tasks' = Append(tasks, NewTask(d, "mining", devices[d].result_sender))

\* lines 872-958
start(d) ==
    /\ d \in DeviceIds
    /\ owner.pc = "idle"
    /\ history.starts < MaxStarts
    /\ StartLoop(d)
    /\ history' = [Finished(history, "start", d, Ok, <<>>) EXCEPT !.starts = @ + 1]
    /\ UNCHANGED <<channel, collector, collected_results, owner, queue>>

\* line 965: self.mining_stop_signal.store(true)
StopSignal(d, name) ==
    /\ d \in DeviceIds
    /\ owner.pc = "idle"
    /\ devices' = [devices EXCEPT ![d].mining_stop_signal = TRUE]
    /\ owner' = Entered(name, d, "stop_abort", name = "restart")
    /\ history' = [history EXCEPT !.last = [NoCall EXCEPT !.pre = DeviceSnapshot(d)]]
    /\ UNCHANGED <<tasks, channel, collector, collected_results, queue>>

\* lines 961-965
stop_signal(d) == StopSignal(d, "stop")

\* lines 968-977: handle.take(), and abort() on the task it held
stop_abort ==
    /\ owner.pc = "stop_abort"
    /\ LET d == owner.dev
           k == devices[d].mining_task_handle
       IN /\ devices' = [devices EXCEPT ![d].mining_task_handle = 0]
          /\ tasks' = IF k = 0 THEN tasks ELSE [tasks EXCEPT ![k].aborted = TRUE]
    /\ owner' = [owner EXCEPT !.pc = "stop_clear"]
    /\ UNCHANGED <<channel, collector, collected_results, history, queue>>

\* line 987: the version stop() hands to clear_stale_work
StopValidVersion(q) == 0

\* lines 979-993: status Idle, clear_stale_work(0), return
stop_clear ==
    /\ owner.pc = "stop_clear"
    /\ LET d == owner.dev
           q == devices[d].work_queue
       IN /\ devices' = [devices EXCEPT
                            ![d].status = "Idle",
                            ![d].work_queue = QueueClearStale(q, StopValidVersion(q)).q]
          /\ IF owner.restart
             THEN /\ owner' = [owner EXCEPT !.pc = "restart_start"]
                  /\ history' = history
             ELSE /\ owner' = IdleOwner
                  /\ history' = Finished(history, "stop", d, Ok, history.last.pre)
    /\ UNCHANGED <<tasks, channel, collector, collected_results, queue>>

\* lines 997-999: restart() begins with stop()
restart_stop(d) ==
    /\ history.starts < MaxStarts
    /\ StopSignal(d, "restart")

\* lines 1000-1002: after the sleep restart() goes on with start()
restart_start ==
    /\ owner.pc = "restart_start"
    /\ StartLoop(owner.dev)
    /\ owner' = IdleOwner
    /\ history' = [Finished(history, "restart", owner.dev, Ok, history.last.pre)
                      EXCEPT !.starts = @ + 1]
    /\ UNCHANGED <<channel, collector, collected_results, queue>>

ResetStatisticsAndStop(dev) ==
    [dev EXCEPT !.atomic_stats = ForceFlush(AtomicStatsReset(@), dev.batch_stats_updater),
                !.batch_stats_updater = NewBatchStatsUpdater,
                !.status = "Idle"]

\* lines 1170-1175: atomic_stats.reset(), then force_flush() of the batch updater, which
\* adds what it holds locally and empties itself; no other field of the device is written.
ResetStatistics(dev) ==
    [dev EXCEPT !.atomic_stats = ForceFlush(AtomicStatsReset(@), dev.batch_stats_updater),
                !.batch_stats_updater = NewBatchStatsUpdater]

\* lines 1166-1175: reset() begins
reset_stats(d) ==
    /\ d \in DeviceIds
    /\ owner.pc = "idle"
    /\ history.resets < MaxResets
    /\ devices' = [devices EXCEPT ![d] = ResetStatistics(@)]
    /\ owner' = Entered("reset", d, "reset_version", FALSE)
    /\ history' = [history EXCEPT !.resets = @ + 1,
                                  !.last = [NoCall EXCEPT !.pre = DeviceSnapshot(d)]]
    /\ UNCHANGED <<tasks, channel, collector, collected_results, queue>>

\* line 1178: let new_version = self.work_queue.update_work_version()
reset_version ==
    /\ owner.pc = "reset_version"
    /\ LET d == owner.dev
           r == QueueUpdateVersion(devices[d].work_queue)
       IN /\ devices' = [devices EXCEPT ![d].work_queue = r.q]
          /\ owner' = [owner EXCEPT !.pc = "reset_clear", !.new_version = r.ret]
    /\ UNCHANGED <<tasks, channel, collector, collected_results, history, queue>>

\* lines 1179-1188: clear_stale_work(new_version), return
reset_clear ==
    /\ owner.pc = "reset_clear"
    /\ LET d == owner.dev
       IN /\ devices' = [devices EXCEPT ![d].work_queue =
                            QueueClearStale(@, owner.new_version).q]
          /\ history' = [Finished(history, "reset", d, Ok, history.last.pre)
                            EXCEPT !.last.snapshot = DeviceStats(d)]
    /\ owner' = IdleOwner
    /\ UNCHANGED <<tasks, channel, collector, collected_results, queue>>

\* lines 1010-1020: a full queue is logged, the method returns Ok(()) either way.
SubmitReturn(enqueued) == Ok

\* SoftwareDevice::submit_work with the job `work`
SubmitWork(d, work) ==
    LET r == QueueEnqueue(devices[d].work_queue, work)
    IN [q |-> r.q, ret |-> SubmitReturn(r.ret)]

\* lines 1006-1021, with a job the caller made: a fresh id, a version of `versions`, a
\* target of `targets`
SubmitJob(d, versions, targets) ==
    /\ d \in DeviceIds
    /\ owner.pc = "idle"
    /\ history.next_job < MaxDeviceJobs
    /\ \E v \in versions, target \in targets :
         LET r == SubmitWork(d, Job(history.next_job + 1, v, target))
         IN /\ devices' = [devices EXCEPT ![d].work_queue = r.q]
            /\ history' = [Finished(history, "submit_work", d, r.ret, <<>>)
                              EXCEPT !.next_job = @ + 1]
    /\ UNCHANGED <<tasks, channel, collector, collected_results, owner, queue>>

\* Jobs of any version whose target every digest meets
submit_versioned_work(d) == SubmitJob(d, 0..MaxVersion, {"any"})

\* Jobs of one version whose target every digest meets, or only some
submit_targeted_work(d) == SubmitJob(d, {0}, {"any", "hard"})

\* line 1026: self.work_queue.dequeue_work(); without a job the method returns Ok(None).
get_result_dequeue(d) ==
    /\ d \in DeviceIds
    /\ owner.pc = "idle"
    /\ LET r == QueueDequeue(devices[d].work_queue)
       IN /\ devices' = [devices EXCEPT ![d].work_queue = r.q]
          /\ IF r.ret = None
             THEN /\ owner' = owner
                  /\ history' = Finished(history, "get_result", d, None, <<>>)
             ELSE /\ owner' = [Entered("get_result", d, "get_result_mine", FALSE)
                                  EXCEPT !.work = r.ret.val]
                  /\ history' = [history EXCEPT !.last = NoCall]
    /\ UNCHANGED <<tasks, channel, collector, collected_results, queue>>

\* line 1045: Ok(result), with or without a result channel
GetResultReturn(sender, result) == result

\* lines 1031-1045: mine_work (lines 568-652) runs one batch, counts an accepted result
\* and the hashes; the result is sent when a channel is configured, and returned.
get_result_mine ==
    /\ owner.pc = "get_result_mine"
    /\ LET d == owner.dev
           dev == devices[d]
       IN \E outcome \in BatchOutcomes(owner.work, dev.error_rate) :
            LET result == Solution(owner.work, d, history.next_nonce + 1)
                found == IF outcome.found THEN Some(result) ELSE None
                counted == IF outcome.found THEN IncrementAccepted(dev.atomic_stats)
                                            ELSE dev.atomic_stats
                sends == dev.result_sender /\ outcome.found
                value == GetResultReturn(dev.result_sender, found)
            IN /\ devices' = [devices EXCEPT ![d].atomic_stats =
                                 RecordHashes(counted, outcome.hashes_done)]
               /\ channel' = IF sends THEN Append(channel, result) ELSE channel
               /\ history' =
                    [Finished(history, "get_result", d, value, <<>>) EXCEPT
                        !.next_nonce = IF outcome.found THEN @ + 1 ELSE @,
                        !.found = IF outcome.found
                                  THEN Append(@, [result |-> result, by |-> 0,
                                                  sender |-> dev.result_sender])
                                  ELSE @,
                        !.sent = IF sends THEN Append(@, result) ELSE @,
                        !.pulled = IF value = None THEN @ ELSE Append(@, value.val),
                        !.batch = [by |-> 0, dev |-> d,
                                   must |-> MustHit(owner.work, dev.error_rate),
                                   sender |-> dev.result_sender,
                                   delivered |-> sends \/ value # None,
                                   counted |-> outcome.found]]
    /\ owner' = IdleOwner
    /\ UNCHANGED <<tasks, collector, collected_results, queue>>

\* ---------------------------------------------------------------- the loop of start()
\* line 915: while !stop_signal.load()
task_check(k) ==
    /\ k \in DOMAIN tasks
    /\ tasks[k].kind = "mining"
    /\ tasks[k].pc = "check"
    /\ tasks' = [tasks EXCEPT ![k].pc = IF devices[tasks[k].dev].mining_stop_signal
                                        THEN "done" ELSE "dequeue"]
    /\ UNCHANGED <<devices, channel, collector, collected_results, owner, history, queue>>

\* line 917: work_queue.dequeue_work(); without a job the loop sleeps (line 940).
task_dequeue(k) ==
    /\ k \in DOMAIN tasks
    /\ tasks[k].pc = "dequeue"
    /\ LET d == tasks[k].dev
           r == QueueDequeue(devices[d].work_queue)
       IN /\ devices' = [devices EXCEPT ![d].work_queue = r.q]
          /\ tasks' = IF r.ret = None
                      THEN [tasks EXCEPT ![k].pc = "sleep"]
                      ELSE [tasks EXCEPT ![k].pc = "mine", ![k].work = r.ret.val]
    /\ UNCHANGED <<channel, collector, collected_results, owner, history, queue>>

\* lines 940 and 744: the sleep is over; an aborted task is not polled again.
task_leaves(k) ==
    /\ k \in DOMAIN tasks
    /\ tasks[k].pc = "sleep"
    /\ ~tasks[k].aborted
    /\ tasks' = [tasks EXCEPT ![k].pc = "done"]
    /\ UNCHANGED <<devices, channel, collector, collected_results, owner, history, queue>>

task_wake(k) ==
    /\ k \in DOMAIN tasks
    /\ tasks[k].pc = "sleep"
    /\ ~tasks[k].aborted
    /\ tasks' = [tasks EXCEPT ![k].pc = "check"]
    /\ UNCHANGED <<devices, channel, collector, collected_results, owner, history, queue>>

\* JoinHandle::abort takes effect where the task awaits: in the sleep of line 940 (744
\* in the continuous loop), or at the yield_now of line 540 inside a batch that has not
\* found a solution at once.  The batch of the continuous loop awaits nowhere.
AtAwait(task) ==
    \/ task.pc = "sleep"
    \/ task.pc = "mine" /\ ~MustHit(task.work, devices[task.dev].error_rate)

task_cancel(k) ==
    /\ k \in DOMAIN tasks
    /\ tasks[k].aborted
    /\ AtAwait(tasks[k])
    /\ tasks' = [tasks EXCEPT ![k].pc = "cancelled", ![k].work = NoJob]
    /\ UNCHANGED <<devices, channel, collector, collected_results, owner, history, queue>>

\* lines 548-551: the accepted counter moves only when found_solution is set.
CountsAccepted(found_solution) == found_solution # NoSolution

\* lines 491-542 of mine_work_static: one batch; a solution is sent on the channel the
\* loop captured, or kept in found_solution when there is none.
task_mine(k) ==
    /\ k \in DOMAIN tasks
    /\ tasks[k].pc = "mine"
    /\ LET d == tasks[k].dev
           task == tasks[k]
       IN \E outcome \in BatchOutcomes(task.work, devices[d].error_rate) :
            LET result == Solution(task.work, d, history.next_nonce + 1)
                sends == task.sender /\ outcome.found
            IN /\ channel' = IF sends THEN Append(channel, result) ELSE channel
               /\ tasks' = [tasks EXCEPT
                              ![k].pc = "stats",
                              ![k].hashes_done = outcome.hashes_done,
                              ![k].found = IF outcome.found /\ ~task.sender
                                           THEN result ELSE NoSolution,
                              ![k].must = MustHit(task.work, devices[d].error_rate),
                              ![k].delivered = sends]
               /\ history' =
                    [history EXCEPT
                        !.next_nonce = IF outcome.found THEN @ + 1 ELSE @,
                        !.found = IF outcome.found
                                  THEN Append(@, [result |-> result, by |-> k,
                                                  sender |-> task.sender])
                                  ELSE @,
                        !.sent = IF sends THEN Append(@, result) ELSE @]
    /\ UNCHANGED <<devices, collector, collected_results, owner, queue>>

\* lines 544-564 and 921-937: the statistics are updated, mine_work_static returns
\* found_solution and the loop, having logged it, goes round again.
task_stats(k) ==
    /\ k \in DOMAIN tasks
    /\ tasks[k].pc = "stats"
    /\ LET d == tasks[k].dev
           task == tasks[k]
           counted == IF CountsAccepted(task.found)
                      THEN IncrementAccepted(devices[d].atomic_stats)
                      ELSE devices[d].atomic_stats
       IN /\ devices' = [devices EXCEPT ![d].atomic_stats =
                            RecordHashes(counted, task.hashes_done)]
          /\ history' = [history EXCEPT !.batch =
                            [by |-> k, dev |-> d, must |-> task.must,
                             sender |-> task.sender, delivered |-> task.delivered,
                             counted |-> CountsAccepted(task.found)]]
          /\ tasks' = [tasks EXCEPT ![k] = [NewTask(d, task.kind, task.sender)
                                               EXCEPT !.aborted = task.aborted]]
    /\ UNCHANGED <<channel, collector, collected_results, owner, queue>>

\* ---------------------------------------------------------------- one device on its own
\* SoftwareMiningCore::new: not running, no collector task yet
NoCollector == [running |-> FALSE, pc |-> "none", result |-> NoSolution, accepted_work |-> 0]

InitDeviceWith(error_rates) ==
    /\ QueueUnused
    /\ \E error_rate \in error_rates : devices = <<NewDevice(error_rate)>>
    /\ tasks = <<>>
    /\ channel = <<>>
    /\ collector = NoCollector
    /\ collected_results = <<>>
    /\ owner = IdleOwner
    /\ history = NewHistory

\* error_rate is 0 or positive
InitDevice == InitDeviceWith({0, 1})

InitFaultless == InitDeviceWith({0})

\* ---------------------------------------------------------------- start_continuous_mining
\* lines 704-802: like start(), with the continuous loop
start_continuous_mining(d) ==
    /\ d \in DeviceIds
    /\ owner.pc = "idle"
    /\ history.starts < MaxStarts
    /\ devices' = [devices EXCEPT ![d].status = "Running",
                                  ![d].mining_stop_signal = FALSE,
                                  ![d].mining_task_handle = Len(tasks) + 1]
    /\ tasks' = Append(tasks, NewTask(d, "continuous", devices[d].result_sender))
    /\ history' = [Finished(history, "start_continuous_mining", d, Ok, <<>>)
                      EXCEPT !.starts = @ + 1]
    /\ UNCHANGED <<channel, collector, collected_results, owner, queue>>

\* line 730: while !stop_signal.load()
continuous_check(k) ==
    /\ k \in DOMAIN tasks
    /\ tasks[k].kind = "continuous"
    /\ tasks[k].pc = "check"
    /\ tasks' = [tasks EXCEPT ![k].pc = IF devices[tasks[k].dev].mining_stop_signal
                                        THEN "done" ELSE "switch"]
    /\ UNCHANGED <<devices, channel, collector, collected_results, owner, history, queue>>

\* line 733: current_work.as_ref().map_or(true, |cw| cw.id != new_work.id); a loop
\* without a current job holds NoJob, whose id no job has
SwitchesAlways(current_work, new_work) == TRUE
SwitchesJob(current_work, new_work) == current_work.id # new_work.id

\* lines 732-747: a dequeued job with another id becomes the current job and the nonce
\* counter goes back to 0; a dequeued job with the id of the current job is dropped.
\* Without a current job the loop sleeps.
continuous_switch(k) ==
    /\ k \in DOMAIN tasks
    /\ tasks[k].pc = "switch"
    /\ LET d == tasks[k].dev
           r == QueueDequeue(devices[d].work_queue)
           switches == r.ret # None /\ SwitchesJob(tasks[k].work, r.ret.val)
           current_work == IF switches THEN r.ret.val ELSE tasks[k].work
       IN /\ devices' = [devices EXCEPT ![d].work_queue = r.q]
          /\ tasks' = [tasks EXCEPT ![k].work = current_work,
                                    ![k].nonce_iterator = IF switches THEN 0 ELSE @,
                                    ![k].pc = IF current_work = NoJob THEN "sleep"
                                                                      ELSE "batch"]
    /\ UNCHANGED <<channel, collector, collected_results, owner, history, queue>>

\* The solutions of one batch of the continuous loop, numbered from `first`
RECURSIVE Solutions(_, _, _, _)
Solutions(work, d, first, n) ==
    IF n = 0 THEN <<>>
    ELSE <<Solution(work, d, first)>> \o Solutions(work, d, first + 1, n - 1)

\* lines 749-779: every hash of the batch that meets the target makes a result; it is
\* sent, and counted as accepted, when a sender was captured, and dropped otherwise.
\* The nonces of the batch are nonce_iterator, nonce_iterator + 1, ...; the counter
\* then moves on by the batch (wrapping_add at 2^32, far above what a behaviour here
\* reaches).  `limit` bounds the batches of a behaviour.
ContinuousBatch(k, limit) ==
    /\ k \in DOMAIN tasks
    /\ tasks[k].pc = "batch"
    /\ history.rounds < limit
    /\ LET d == tasks[k].dev
           task == tasks[k]
       IN \E hits \in (IF task.work.target = "any" THEN {BatchSize} ELSE 0..BatchSize) :
            LET results == Solutions(task.work, d, history.next_nonce + 1, hits)
                sends == task.sender /\ hits > 0
            IN /\ channel' = IF sends THEN channel \o results ELSE channel
               /\ devices' = [devices EXCEPT ![d].atomic_stats.accepted_work =
                                 IF sends THEN @ + hits ELSE @]
               /\ tasks' = [tasks EXCEPT ![k].pc = "hashes",
                                         ![k].hashes_done = BatchSize,
                                         ![k].nonce_iterator = @ + BatchSize,
                                         ![k].must = task.work.target = "any",
                                         ![k].delivered = sends]
               /\ history' =
                    [history EXCEPT
                        !.rounds = @ + 1,
                        !.next_nonce = @ + hits,
                        !.found = @ \o [i \in 1..hits |->
                                          [result |-> results[i], by |-> k,
                                           sender |-> task.sender]],
                        !.sent = IF sends THEN @ \o results ELSE @]
    /\ UNCHANGED <<collector, collected_results, owner, queue>>

continuous_batch(k) == ContinuousBatch(k, MaxRounds)

\* lines 780-785: atomic_stats.record_hashes(hashes_done_in_batch)
continuous_hashes(k) ==
    /\ k \in DOMAIN tasks
    /\ tasks[k].pc = "hashes"
    /\ LET d == tasks[k].dev
           task == tasks[k]
       IN /\ devices' = [devices EXCEPT ![d].atomic_stats =
                            RecordHashes(@, task.hashes_done)]
          /\ history' = [history EXCEPT !.batch =
                            [by |-> k, dev |-> d, must |-> task.must,
                             sender |-> task.sender, delivered |-> task.delivered,
                             counted |-> task.delivered]]
          /\ tasks' = [tasks EXCEPT ![k].pc = "check", ![k].hashes_done = 0,
                                    ![k].must = FALSE, ![k].delivered = FALSE]
    /\ UNCHANGED <<channel, collector, collected_results, owner, queue>>

\* Lifecycle: initialize, start, stop, restart and reset in any order, with jobs
\* submitted and the loops running.
NextLifecycle ==
    \/ \E d \in DeviceSlots :
        \/ initialize(d)
        \/ start(d)
        \/ start_continuous_mining(d)
        \/ stop_signal(d)
        \/ restart_stop(d)
        \/ reset_stats(d)
        \/ submit_versioned_work(d)
    \/ stop_abort
    \/ stop_clear
    \/ restart_start
    \/ reset_version
    \/ reset_clear
    \/ \E k \in TaskSlots :
        \/ task_check(k)
        \/ task_dequeue(k)
        \/ task_wake(k)
        \/ task_cancel(k)
        \/ task_mine(k)
        \/ task_stats(k)
        \/ continuous_check(k)
        \/ continuous_switch(k)
        \/ continuous_batch(k)
        \/ continuous_hashes(k)

SpecLifecycle == InitFaultless /\ [][NextLifecycle]_vars

\* Delivery: a device with or without a result channel; jobs are submitted, the loops
\* mine them and the owner pulls with get_result.
NextDelivery ==
    \/ \E d \in DeviceSlots :
        \/ set_result_sender(d)
        \/ initialize(d)
        \/ start(d)
        \/ start_continuous_mining(d)
        \/ submit_targeted_work(d)
        \/ get_result_dequeue(d)
    \/ get_result_mine
    \/ \E k \in TaskSlots :
        \/ task_check(k)
        \/ task_dequeue(k)
        \/ task_wake(k)
        \/ task_mine(k)
        \/ task_stats(k)
        \/ continuous_check(k)
        \/ continuous_switch(k)
        \/ continuous_batch(k)
        \/ continuous_hashes(k)

SpecDelivery == InitDevice /\ [][NextDelivery]_vars

\* ======================================================================
\* SoftwareMiningCore (src/src/core.rs): the devices it created in initialize(), each
\* with a clone of the result sender, the collector task and the result buffer.
\* ======================================================================
MaxCoreJobs == 2     \* submit_work calls on the core where results are collected
MaxFanoutJobs == 4   \* the same where only the fan-out is followed

\* lines 509-538 with create_software_devices (lines 257-271): every device gets the
\* result sender and is initialised.
CoreDevice(error_rate) ==
    [NewDevice(error_rate) EXCEPT !.result_sender = TRUE, !.status = "Idle"]

InitCore ==
    /\ QueueUnused
    /\ devices = [d \in 1..NumDevices |-> CoreDevice(0)]
    /\ tasks = <<>>
    /\ channel = <<>>
    /\ collector = NoCollector
    /\ collected_results = <<>>
    /\ owner = IdleOwner
    /\ history = NewHistory

\* lines 557-569 and 426-459: start() sets `running`, takes the receiver and spawns the
\* collector task; a core that is running refuses.
core_start_collection ==
    /\ owner.pc = "idle"
    /\ ~collector.running
    /\ collector' = [collector EXCEPT !.running = TRUE, !.pc = "recv"]
    /\ owner' = Entered("core_start", 1, "core_start_device", FALSE)
    /\ history' = [history EXCEPT !.last = NoCall]
    /\ UNCHANGED <<devices, tasks, channel, collected_results, queue>>

\* lines 572-584: device.start() on each device in turn, then Ok(())
core_start_device ==
    /\ owner.pc = "core_start_device"
    /\ StartLoop(owner.dev)
    /\ IF owner.dev < NumDevices
       THEN /\ owner' = [owner EXCEPT !.dev = @ + 1]
            /\ history' = [history EXCEPT !.starts = @ + 1]
       ELSE /\ owner' = IdleOwner
            /\ history' = [Finished(history, "core_start", 0, Ok, <<>>)
                              EXCEPT !.starts = @ + 1]
    /\ UNCHANGED <<channel, collector, collected_results, queue>>

\* lines 716-720: submit_work(work) of the core begins, with a job the caller made.
CoreSubmit(limit, versions) ==
    /\ owner.pc = "idle"
    /\ history.next_job < limit
    /\ \E v \in versions :
         owner' = [Entered("core_submit_work", 1, "core_submit_offer", FALSE)
                      EXCEPT !.work = Job(history.next_job + 1, v, "any")]
    /\ history' = [history EXCEPT !.next_job = @ + 1, !.last = NoCall]
    /\ UNCHANGED <<devices, tasks, channel, collector, collected_results, queue>>

core_submit_work == CoreSubmit(MaxCoreJobs, 0..MaxVersion)

core_fanout_work == CoreSubmit(MaxFanoutJobs, {0})

CoreSubmitReturnStrict(offers) ==
    IF \E i \in DOMAIN offers : Len(offers[i].pending_work) >= offers[i].max_queue_size
    THEN Err(0) ELSE Ok

\* line 742: Ok(()) whatever the devices answered
CoreSubmitReturn(offers) == Ok

\* lines 722-742: device.submit_work(work.clone()) on the next device; after the last
\* one the method returns.  `pre` keeps, per device, the queue as the offer found it.
core_submit_offer ==
    /\ owner.pc = "core_submit_offer"
    /\ LET d == owner.dev
           r == SubmitWork(d, owner.work)
           offers == Append(history.last.pre, devices[d].work_queue)
       IN /\ devices' = [devices EXCEPT ![d].work_queue = r.q]
          /\ IF d < NumDevices
             THEN /\ owner' = [owner EXCEPT !.dev = @ + 1]
                  /\ history' = [history EXCEPT !.last.pre = offers]
             ELSE /\ owner' = IdleOwner
                  /\ history' = [history EXCEPT !.last =
                                    [op |-> "core_submit_work", dev |-> 0,
                                     ret |-> CoreSubmitReturn(offers), pre |-> offers,
                                     snapshot |-> owner.work]]
    /\ UNCHANGED <<tasks, channel, collector, collected_results, queue>>

\* lines 437-446: receiver.recv().await yields the oldest result of the channel; the
\* core's accepted count is incremented.
collector_recv ==
    /\ collector.pc = "recv"
    /\ channel # <<>>
    /\ collector' = [collector EXCEPT !.pc = "push", !.result = Head(channel),
                                      !.accepted_work = @ + 1]
    /\ channel' = Tail(channel)
    /\ UNCHANGED <<devices, tasks, collected_results, owner, history, queue>>

\* lines 449-452: results_guard.push(result)
collector_push ==
    /\ collector.pc = "push"
    /\ collected_results' = Append(collected_results, collector.result)
    /\ collector' = [collector EXCEPT !.pc = "recv", !.result = NoSolution]
    /\ UNCHANGED <<devices, tasks, channel, owner, history, queue>>

DrainKeeps(results) == [taken |-> results, left |-> results]

\* line 749: results_guard.drain(..).collect(): everything is taken, nothing is left.
Drain(results) == [taken |-> results, left |-> <<>>]

\* lines 746-756
collect_results ==
    /\ owner.pc = "idle"
    /\ LET r == Drain(collected_results)
       IN /\ collected_results' = r.left
          /\ history' = [Finished(history, "collect_results", 0, Value(r.taken),
                                  collected_results)
                            EXCEPT !.collected = @ \o r.taken]
    /\ UNCHANGED <<devices, tasks, channel, collector, owner, queue>>

\* The core is started, jobs are submitted, the loops of the devices send what they
\* find, the collector buffers it and the owner collects.
NextCollect ==
    \/ core_start_collection
    \/ core_start_device
    \/ core_submit_work
    \/ core_submit_offer
    \/ collector_recv
    \/ collector_push
    \/ collect_results
    \/ \E k \in TaskSlots :
        \/ task_check(k)
        \/ task_dequeue(k)
        \/ task_wake(k)
        \/ task_mine(k)
        \/ task_stats(k)

SpecCollect == InitCore /\ [][NextCollect]_vars

\* The fan-out: jobs are submitted to the core faster than the loops of the devices,
\* started or not, take them from their queues.
NextFanout ==
    \/ core_start_collection
    \/ core_start_device
    \/ core_fanout_work
    \/ core_submit_offer
    \/ \E k \in TaskSlots :
        \/ task_check(k)
        \/ task_dequeue(k)
        \/ task_wake(k)
        \/ task_mine(k)
        \/ task_stats(k)

SpecFanout == InitCore /\ [][NextFanout]_vars

\* ---------------------------------------------------------------- claims on the worker
\* The owner is between calls and the call it made last was `name`.
JustReturned(name) == owner.pc = "idle" /\ history.last.op = name

\* C11: exactly one execution loop per worker: in every reachable state at most one loop
\* of a device is active (spawned, not ended and not aborted); a start never leaves an
\* earlier loop running beside the new one.
C11_OneLoopPerWorker == \A d \in DeviceIds : Cardinality(ActiveLoops(d)) <= 1

\* C12: delivery modes are never mixed: with a result channel configured on a device,
\* get_result returns "no result", and no result is both sent on the channel and
\* returned by get_result.
C12_ModesNeverMixed ==
    /\ (history.last.op = "get_result" /\ devices[history.last.dev].result_sender)
          => history.last.ret = None
    /\ Range(history.sent) \cap Range(history.pulled) = {}

\* The result the collector task has received and not yet buffered
HeldByCollector == IF collector.pc = "push" THEN <<collector.result>> ELSE <<>>

\* C13: push-mode results are consumed exactly once: the results sent on the channel
\* are, in the order sent, those collect_results has returned so far, then those in the
\* buffer, then the one the collector holds, then those still in the channel: none is
\* lost, none is returned twice; and a collect_results call returns exactly what the
\* buffer held.
C13_ConsumedExactlyOnce ==
    /\ history.sent = history.collected \o collected_results \o HeldByCollector \o channel
    /\ JustReturned("collect_results") => history.last.ret = Value(history.last.pre)

\* A second collect_results call has returned results of its own, after an earlier call
\* returned others, with results of both devices among them.
C13_Witness ==
    /\ JustReturned("collect_results")
    /\ history.last.ret.val # <<>>
    /\ Len(history.last.ret.val) < Len(history.collected)
    /\ \A d \in DeviceIds : \E i \in DOMAIN history.collected :
          history.collected[i].device_id = d

\* The solutions the loops hold in found_solution at this moment
HeldByLoops == {tasks[k].found : k \in DOMAIN tasks} \ {NoSolution}

\* C14: pull-mode buffering: every solution a loop without a channel has found is still
\* held by that loop, or lies in the completed store of its device, or has been taken
\* by get_result; none is discarded.
C14_FoundIsBuffered ==
    \A i \in DOMAIN history.found :
        LET f == history.found[i]
        IN (f.by # 0 /\ ~f.sender) =>
              f.result \in HeldByLoops
                           \cup Range(devices[f.result.device_id].work_queue.completed_work)
                           \cup Range(history.pulled)

\* C15: stop() purges stale pending work: once stop() has returned, the pending queue
\* of the device holds no job whose version is below the queue's current version.
C15_StopPurgesStale ==
    JustReturned("stop") =>
        LET q == devices[history.last.dev].work_queue
        IN \A i \in DOMAIN q.pending_work :
              q.pending_work[i].version >= q.current_work_version

\* C16: reset() advances and purges by job version: once reset() has returned, the
\* current version is one greater than when it was called and no job that was pending
\* then is still in the queue.
C16_ResetAdvancesAndPurges ==
    JustReturned("reset") =>
        LET q == devices[history.last.dev].work_queue
            pre == history.last.pre
        IN /\ q.current_work_version = pre.current_work_version + 1
           /\ Range(pre.pending_work) \cap Range(q.pending_work) = {}

\* The device was stopped when the call that returned last began: status Idle, the stop
\* flag raised and no task handle held.
WasStopped(pre) ==
    pre.status = "Idle" /\ pre.mining_stop_signal /\ pre.mining_task_handle = 0

\* C17: reset() zeroes all counters: when reset() is called on a stopped device, the
\* hash, accepted, rejected and hardware-error counts that get_stats reports at the
\* moment reset() returns are all 0.
C17_ResetZeroesCounters ==
    (JustReturned("reset") /\ WasStopped(history.last.pre)) =>
        history.last.snapshot = NewAtomicStats

\* The owner takes a step of reset().
ResetStep == owner' # owner /\ (owner.op = "reset" \/ owner'.op = "reset")

\* status, stop flag and task handle of every device
Lifecycle ==
    [d \in DeviceIds |-> [status |-> devices[d].status,
                          mining_stop_signal |-> devices[d].mining_stop_signal,
                          mining_task_handle |-> devices[d].mining_task_handle]]

\* C18: reset() leaves the lifecycle state unchanged: no step of reset() changes the
\* status, the stop flag or the task handle of a device, and none spawns, aborts or
\* ends a loop task.
C18_ResetKeepsLifecycle == [][ResetStep => (Lifecycle' = Lifecycle /\ tasks' = tasks)]_vars

\* reset() has returned on a running device whose loop is still active.
C18_Witness ==
    /\ JustReturned("reset")
    /\ history.last.pre.status = "Running"
    /\ devices[history.last.dev].status = "Running"
    /\ devices[history.last.dev].mining_task_handle \in ActiveLoops(history.last.dev)

\* C19: trivially satisfiable target: a batch run by a device with error rate 0 on a
\* job whose target every digest meets delivers an accepted result (on the channel or
\* to the caller of get_result) and increments the accepted counter, with or without a
\* channel.
C19_EasyTargetIsReported ==
    history.batch.must => (history.batch.delivered /\ history.batch.counted)

\* The core's submit_work offers its job to the device owner.dev.
OfferStep == owner.pc = "core_submit_offer" /\ owner' # owner

\* What an offer of `work` does to the queue q: with room the job is appended to the
\* pending jobs, without room only the full-rejection counter moves.
OfferedTo(q, after, work) ==
    IF Len(q.pending_work) < q.max_queue_size
    THEN /\ after.pending_work = Append(q.pending_work, work)
         /\ after.queue_full_count = q.queue_full_count
    ELSE after = [q EXCEPT !.queue_full_count = @ + 1]

\* C20: the core's submit_work tolerates full queues: it offers the job to every device
\* in turn and returns Ok whether or not queues were full; an offer to a queue with
\* room leaves exactly one more pending reference to the job there, an offer to a full
\* queue changes nothing but that queue's full-rejection counter, and no offer touches
\* another device.
C20_SubmitToleratesFullQueues ==
    /\ [](JustReturned("core_submit_work") =>
             (history.last.ret = Ok /\ Len(history.last.pre) = NumDevices))
    /\ [][OfferStep =>
             /\ OfferedTo(devices[owner.dev].work_queue, devices'[owner.dev].work_queue,
                          owner.work)
             /\ \A e \in DeviceIds \ {owner.dev} : devices'[e] = devices[e]
             /\ tasks' = tasks]_vars

\* submit_work of the core has returned after offering its job to one device whose
\* queue was full and to another whose queue had room.
C20_Witness ==
    /\ JustReturned("core_submit_work")
    /\ \E i, j \in DOMAIN history.last.pre :
          /\ Len(history.last.pre[i].pending_work) = DeviceQueueSize
          /\ Len(history.last.pre[j].pending_work) < DeviceQueueSize
          /\ Len(devices[j].work_queue.pending_work) > 0

\* ======================================================================== AtomicStats
\* Threads sharing one AtomicStats (device.rs lines 73-216).  A thread is a record of
\* `tasks`; the statistics are those of devices[1]; `owner` is the thread that spawned
\* the others and joins them; `history` holds the clock and what the calls added.
NumRecorders == 2
MaxRecordCalls == 2
MaxHashes == 2
MaxClock == 1

HashCounts == 0..MaxHashes

\* AtomicStats::new: counters 0, both time stamps the construction time
TimedStats(now) ==
    [total_hashes |-> 0, accepted_work |-> 0, rejected_work |-> 0, hardware_errors |-> 0,
     start_time_nanos |-> now, last_update_nanos |-> now]

Recorder == [pc |-> "idle", hashes |-> 0, seen |-> 0, calls |-> 0]

InitRecorders ==
    /\ QueueUnused
    /\ devices = <<[atomic_stats |-> TimedStats(0)]>>
    /\ tasks = [t \in 1..NumRecorders |-> Recorder]
    /\ channel = <<>>
    /\ collector = NoCollector
    /\ collected_results = <<>>
    /\ owner = [pc |-> "spawned", total |-> 0]
    /\ history = [now |-> 0, added |-> 0, overlapped |-> FALSE]

RecorderSlots == 1..NumRecorders

\* SystemTime::now() between two steps of the program
clock_tick ==
    /\ history.now < MaxClock
    /\ history' = [history EXCEPT !.now = @ + 1]
    /\ UNCHANGED <<devices, tasks, channel, collector, collected_results, owner, queue>>

\* a thread calls record_hashes(hashes); `seen` is total_hashes at the moment of the call
record_hashes(t) ==
    /\ t \in DOMAIN tasks
    /\ tasks[t].pc = "idle"
    /\ tasks[t].calls < MaxRecordCalls
    /\ \E hashes \in HashCounts :
         /\ tasks' = [tasks EXCEPT ![t].pc = "fetch_add", ![t].hashes = hashes,
                                   ![t].seen = devices[1].atomic_stats.total_hashes]
         /\ history' = [history EXCEPT
                          !.added = @ + hashes,
                          !.overlapped = @ \/ \E u \in DOMAIN tasks :
                                                 u # t /\ tasks[u].pc = "fetch_add"]
    /\ UNCHANGED <<devices, channel, collector, collected_results, owner, queue>>

\* line 124: total_hashes.fetch_add(hashes) is one read-modify-write of the cell's
\* current value, whatever the thread saw earlier.
RecordHashesLoadStore(current, seen, hashes) == seen + hashes
RecordHashesFetchAdd(current, seen, hashes) == current + hashes

record_hashes_fetch_add(t) ==
    /\ t \in DOMAIN tasks
    /\ tasks[t].pc = "fetch_add"
    /\ devices' = [devices EXCEPT ![1].atomic_stats.total_hashes =
                      RecordHashesFetchAdd(@, tasks[t].seen, tasks[t].hashes)]
    /\ tasks' = [tasks EXCEPT ![t].pc = "store"]
    /\ UNCHANGED <<channel, collector, collected_results, owner, history, queue>>

\* lines 127-131: last_update_nanos.store(now)
record_hashes_store(t) ==
    /\ t \in DOMAIN tasks
    /\ tasks[t].pc = "store"
    /\ devices' = [devices EXCEPT ![1].atomic_stats.last_update_nanos = history.now]
    /\ tasks' = [tasks EXCEPT ![t].pc = "idle", ![t].calls = @ + 1]
    /\ UNCHANGED <<channel, collector, collected_results, owner, history, queue>>

\* the thread's closure ends
recorder_exit(t) ==
    /\ t \in DOMAIN tasks
    /\ tasks[t].pc = "idle"
    /\ tasks' = [tasks EXCEPT ![t].pc = "done"]
    /\ UNCHANGED <<devices, channel, collector, collected_results, owner, history, queue>>

\* JoinHandle::join on every thread, then the total is read (get_raw_stats, line 136)
join_recorders ==
    /\ owner.pc = "spawned"
    /\ \A t \in DOMAIN tasks : tasks[t].pc = "done"
    /\ owner' = [pc |-> "joined", total |-> devices[1].atomic_stats.total_hashes]
    /\ UNCHANGED <<devices, tasks, channel, collector, collected_results, history, queue>>

NextRecorders ==
    \/ clock_tick
    \/ \E t \in RecorderSlots : record_hashes(t)
    \/ \E t \in RecorderSlots : record_hashes_fetch_add(t)
    \/ \E t \in RecorderSlots : record_hashes_store(t)
    \/ \E t \in RecorderSlots : recorder_exit(t)
    \/ join_recorders

SpecRecorders == InitRecorders /\ [][NextRecorders]_vars

\* C21: record_hashes loses no update.  Once every thread that called record_hashes on
\* the shared statistics has been joined, the total hash count read equals the sum of
\* the counts the calls passed.
C21_NoLostUpdates == owner.pc = "joined" => owner.total = history.added

\* two calls overlapped (one was made while another had not yet added) and both added
C21_Witness ==
    /\ owner.pc = "joined"
    /\ history.overlapped
    /\ owner.total = 2 * MaxHashes * NumRecorders

\* ======================================================================== health_check
\* SoftwareMiningCore::health_check (core.rs lines 768-783) over the devices' own
\* health_check (device.rs lines 1192-1210).  `devices` are the core's devices, of which
\* only the status matters here; what a device's statistics report at the moment it is
\* asked (temperature, error rate) and whether one of its locks is poisoned is drawn
\* when the core asks it.
MaxHealthDevices == 3

DeviceStatuses == {"Uninitialized", "Idle", "Running"}

\* degrees Celsius of stats.temperature; 0 stands for "no reading" (lines 183-185)
Temperatures == {0, 89, 90}

\* stats.error_rate() in percent
ErrorPercents == {9, 10}

HealthSlots == 1..MaxHealthDevices

InitHealth ==
    /\ QueueUnused
    /\ \E n \in 0..MaxHealthDevices :
         devices \in [1..n -> [status : DeviceStatuses]]
    /\ tasks = <<>>
    /\ channel = <<>>
    /\ collector = NoCollector
    /\ collected_results = <<>>
    /\ owner = [pc |-> "idle", next |-> 0, healthy_devices |-> 0]
    /\ history = [reports |-> <<>>, ret |-> Unit]

\* device.rs lines 1192-1210: Err when get_status / get_stats fail, else whether the
\* status is Running or Idle, the temperature (if any) below 90 and the error rate
\* below 10 %.
DeviceHealthCheck(status, temperature, error_percent, poisoned) ==
    IF poisoned
    THEN Err("hardware_error")
    ELSE Value(/\ status \in {"Running", "Idle"}
               /\ (temperature # 0 => temperature < 90)
               /\ error_percent < 10)

\* core.rs lines 769-770: the device map is locked, healthy_devices = 0
core_health_check ==
    /\ owner.pc = "idle"
    /\ owner' = [pc |-> "health_device", next |-> 1, healthy_devices |-> 0]
    /\ history' = [reports |-> <<>>, ret |-> Unit]
    /\ UNCHANGED <<devices, tasks, channel, collector, collected_results, queue>>

\* lines 772-778: one turn of the loop over the devices
core_health_device(d) ==
    /\ owner.pc = "health_device"
    /\ d \in DOMAIN devices
    /\ d = owner.next
    /\ \E temperature \in Temperatures, error_percent \in ErrorPercents,
          poisoned \in BOOLEAN :
         LET report == DeviceHealthCheck(devices[d].status, temperature,
                                         error_percent, poisoned)
         IN /\ owner' = [owner EXCEPT
                           !.next = @ + 1,
                           !.healthy_devices = IF report = Value(TRUE) THEN @ + 1 ELSE @]
            /\ history' = [history EXCEPT !.reports = Append(@, report)]
    /\ UNCHANGED <<devices, tasks, channel, collector, collected_results, queue>>

\* line 781
HealthThresholdFloor(len) == len \div 2
HealthThreshold(len) == (len + 1) \div 2

\* lines 781-782: the loop is over, Ok(healthy_devices >= health_threshold)
core_health_return ==
    /\ owner.pc = "health_device"
    /\ owner.next > Len(devices)
    /\ history' = [history EXCEPT
                     !.ret = Value(owner.healthy_devices >= HealthThreshold(Len(devices)))]
    /\ owner' = [owner EXCEPT !.pc = "idle"]
    /\ UNCHANGED <<devices, tasks, channel, collector, collected_results, queue>>

NextHealth ==
    \/ core_health_check
    \/ \E d \in HealthSlots : core_health_device(d)
    \/ core_health_return

SpecHealth == InitHealth /\ [][NextHealth]_vars

\* the devices whose own health check returned Ok(true) in the finished call
ReportedHealthy == {i \in DOMAIN history.reports : history.reports[i] = Value(TRUE)}

\* C22: the core's health_check returns Ok(healthy), where healthy is true exactly when
\* twice the number of devices that reported healthy is at least the number of devices;
\* a device whose check failed with an error is not counted, and no device at all is
\* healthy.
C22_HealthyIffHalf ==
    (owner.pc = "idle" /\ history.ret # Unit) =>
        /\ Len(history.reports) = Len(devices)
        /\ history.ret = Value(2 * Cardinality(ReportedHealthy) >= Len(devices))

\* exactly half of an even number of devices healthy, another one failing with an error
C22_Witness ==
    /\ owner.pc = "idle"
    /\ history.ret = Value(TRUE)
    /\ Len(devices) = 2
    /\ Cardinality(ReportedHealthy) = 1
    /\ \E i \in DOMAIN history.reports : history.reports[i].tag = "Err"

\* ======================================================================== failing starts
\* SoftwareMiningCore::start (core.rs lines 554-585) over devices whose start() can fail.
\* SoftwareDevice::start (device.rs lines 872-958) returns Err only where it takes a lock
\* that a panicking thread has poisoned: the affinity manager's (line 878), the status'
\* (line 892) or the task handle's (line 949).  A failed bind_current_thread (line 882)
\* is logged and the start goes on.
StartFaults == {"none", "bind", "affinity_lock", "status_lock", "handle_lock"}

FaultyDevice(fault) ==
    [status |-> "Idle",
     mining_stop_signal |-> FALSE,
     mining_task_handle |-> 0,
     result_sender |-> TRUE,
     error_rate |-> 0,
     work_queue |-> NewWorkQueue(DeviceQueueSize),
     atomic_stats |-> NewAtomicStats,
     batch_stats_updater |-> NewBatchStatsUpdater,
     fault |-> fault]

InitFaulty ==
    /\ QueueUnused
    /\ devices \in [1..NumDevices -> {FaultyDevice(fault) : fault \in StartFaults}]
    /\ tasks = <<>>
    /\ channel = <<>>
    /\ collector = NoCollector
    /\ collected_results = <<>>
    /\ owner = IdleOwner
    /\ history = NewHistory

\* device.rs lines 876-957: what start() returns on a device with this fault
StartReturn(fault) ==
    IF fault \in {"affinity_lock", "status_lock", "handle_lock"}
    THEN Err("hardware_error") ELSE Ok

\* device.rs lines 876-957: what start() has done when it returns.  With a poisoned
\* handle mutex the status is Running and the loop is spawned, but its handle is dropped
\* at the early return of line 951.
StartEffect(d) ==
    CASE devices[d].fault \in {"affinity_lock", "status_lock"} ->
            UNCHANGED <<devices, tasks>>
      [] devices[d].fault = "handle_lock" ->
            /\ devices' = [devices EXCEPT ![d].status = "Running",
                                          ![d].mining_stop_signal = FALSE]
            /\ tasks' = Append(tasks, NewTask(d, "mining", devices[d].result_sender))
      [] OTHER -> StartLoop(d)

\* core.rs lines 575-578: an Err of device.start() is logged and the loop over the
\* devices goes on.
StartGivesUp(result) == result # Ok
StartAbandoned(result) == FALSE

\* core.rs lines 572-584: device.start() on the next device; after the last one
\* start_time is set and the method returns Ok(()).  `pre` keeps what each device's
\* start() returned.
core_start_attempt ==
    /\ owner.pc = "core_start_device"
    /\ LET d == owner.dev
           result == StartReturn(devices[d].fault)
           attempts == Append(history.last.pre, result)
       IN /\ StartEffect(d)
          /\ IF StartAbandoned(result)
             THEN /\ owner' = IdleOwner
                  /\ history' = Finished(history, "core_start", 0, result, attempts)
             ELSE IF d < NumDevices
             THEN /\ owner' = [owner EXCEPT !.dev = @ + 1]
                  /\ history' = [history EXCEPT !.last.pre = attempts]
             ELSE /\ owner' = IdleOwner
                  /\ history' = Finished(history, "core_start", 0, Ok, attempts)
    /\ UNCHANGED <<channel, collector, collected_results, queue>>

NextFaulty ==
    \/ core_start_collection
    \/ core_start_attempt
    \/ \E k \in TaskSlots : task_check(k)
    \/ \E k \in TaskSlots : task_dequeue(k)
    \/ \E k \in TaskSlots : task_wake(k)

SpecFaulty == InitFaulty /\ [][NextFaulty]_vars

\* C23: start failures stay with the device that failed.  When the core's start()
\* returns it returns Ok, it has called start() on every device, and every device whose
\* own start() returned Ok is Running with its loop spawned, whichever others failed.
C23_StartFailuresIsolated ==
    JustReturned("core_start") =>
        /\ history.last.ret = Ok
        /\ Len(history.last.pre) = NumDevices
        /\ \A d \in DeviceIds :
              history.last.pre[d] = Ok =>
                  /\ devices[d].status = "Running"
                  /\ devices[d].mining_task_handle \in ActiveLoops(d)

\* the first device failed to start, a later one started
C23_Witness ==
    /\ JustReturned("core_start")
    /\ history.last.pre[1] # Ok
    /\ \E d \in DeviceIds : d > 1 /\ history.last.pre[d] = Ok
                                  /\ devices[d].status = "Running"

\* ======================================================================== configuration
\* SoftwareMiningCore::initialize with validate_config (core.rs lines 476-551, 786-840)
\* and the run-time operations that follow it.  `collector` carries the core's own
\* fields: running, the collector task and, here, the stored configuration.
NumCpus == 2
MaxConfigJobs == 1
DefaultDeviceCount == 4
MaxDeviceCount == 1000

\* custom_params: a parameter is absent (None) or a JSON number; hash rates in H/s, the
\* error rate in percent
ConfigNames == {"", "software-core"}
ConfigDeviceCounts == {None} \cup {Some(v) : v \in {-1, 0, 1, 2, MaxDeviceCount + 1}}
ConfigMinHashrates == {None} \cup {Some(v) : v \in {0, 1, 2, 3}}
ConfigMaxHashrates == {None, Some(2)}
ConfigErrorRates == {None} \cup {Some(v) : v \in {-1, 0, 100, 101}}

Configs ==
    [name : ConfigNames, device_count : ConfigDeviceCounts,
     min_hashrate : ConfigMinHashrates, max_hashrate : ConfigMaxHashrates,
     error_rate : ConfigErrorRates]

\* SoftwareMiningCore::new (lines 142-157): config None, no devices, not running
NewCore ==
    [running |-> FALSE, pc |-> "none", result |-> NoSolution, accepted_work |-> 0,
     config |-> None]

InitConfig ==
    /\ QueueUnused
    /\ devices = <<>>
    /\ tasks = <<>>
    /\ channel = <<>>
    /\ collector = NewCore
    /\ collected_results = <<>>
    /\ owner = IdleOwner
    /\ history = NewHistory

\* serde_json::Value::as_u64: None for a number below zero
AsU64(param) == IF param # None /\ param.val >= 0 THEN param ELSE None

\* lines 830-837
ErrorRateAbove(rate) == rate > 100
ErrorRateOutside(rate) == rate < 0 \/ rate > 100

\* lines 786-840
ValidateConfig(config) ==
    LET count == AsU64(config.device_count)
        min == config.min_hashrate
        max == config.max_hashrate
        rate == config.error_rate
    IN IF config.name = "" THEN Err("config")
       ELSE IF count # None /\ count.val = 0 THEN Err("config")
       ELSE IF count # None /\ count.val > MaxDeviceCount THEN Err("config")
       ELSE IF min # None /\ max # None /\ min.val >= max.val THEN Err("config")
       ELSE IF min # None /\ max # None /\ (min.val <= 0 \/ max.val <= 0)
            THEN Err("config")
       ELSE IF rate # None /\ ErrorRateOutside(rate.val) THEN Err("config")
       ELSE Ok

\* lines 349-386 (CGMINER_SOFTWARE_DEVICE_COUNT unset) and 168-175: the configured
\* count if it lies in 1..1000, else 4; never more than the CPU cores
DeviceCount(config) ==
    LET count == AsU64(config.device_count)
        requested == IF count # None /\ count.val > 0 /\ count.val <= MaxDeviceCount
                     THEN count.val ELSE DefaultDeviceCount
    IN Min(requested, NumCpus)

\* lines 191-194 and 257-271: the devices of a configuration, as created
CreatedDevices(config) ==
    LET error_rate == IF config.error_rate = Some(0) THEN 0 ELSE 1
    IN [d \in 1..DeviceCount(config) |->
           [NewDevice(error_rate) EXCEPT !.result_sender = TRUE]]

\* lines 476-551 on a core that holds no device and no configuration yet.  A device
\* whose initialize() fails (line 533) ends the method after the devices were stored.
core_initialize ==
    /\ owner.pc = "idle"
    /\ devices = <<>>
    /\ collector.config = None
    /\ \E config \in Configs, device_fails \in BOOLEAN :
         LET valid == ValidateConfig(config)
             created == CreatedDevices(config)
         IN IF valid # Ok
            THEN /\ history' = Finished(history, "core_initialize", 0, valid, config)
                 /\ UNCHANGED <<devices, collector>>
            ELSE IF device_fails
            THEN /\ devices' = created
                 /\ history' = Finished(history, "core_initialize", 0, Err("device"),
                                        config)
                 /\ UNCHANGED collector
            ELSE /\ devices' = [d \in DOMAIN created |->
                                   [created[d] EXCEPT !.status = "Idle"]]
                 /\ collector' = [collector EXCEPT !.config = Some(config)]
                 /\ history' = Finished(history, "core_initialize", 0, Ok, config)
    /\ UNCHANGED <<tasks, channel, collected_results, owner, queue>>

\* lines 558-566: the running flag as start() finds it
NeverRunning(core) == FALSE
AlreadyRunning(core) == core.running

\* lines 554-585: a running core refuses; otherwise the collector task is spawned, if
\* the receiver has not been taken by an earlier start (lines 427-432), and the loop of
\* every device
core_start_all ==
    /\ owner.pc = "idle"
    /\ IF AlreadyRunning(collector)
       THEN /\ history' = Finished(history, "core_start", 0, Err("runtime"), <<>>)
            /\ UNCHANGED <<devices, tasks, collector>>
       ELSE /\ collector' = [collector EXCEPT
                                 !.running = TRUE,
                                 !.pc = IF @ = "none" THEN "recv" ELSE @]
            /\ devices' = [d \in DOMAIN devices |->
                              [devices[d] EXCEPT !.status = "Running",
                                                 !.mining_stop_signal = FALSE,
                                                 !.mining_task_handle = Len(tasks) + d]]
            /\ tasks' = tasks \o [d \in DOMAIN devices |->
                                     NewTask(d, "mining", devices[d].result_sender)]
            /\ history' = Finished(history, "core_start", 0, Ok, <<>>)
    /\ UNCHANGED <<channel, collected_results, owner, queue>>

\* lines 716-743: the job is offered to every device
core_submit_all ==
    /\ owner.pc = "idle"
    /\ history.next_job < MaxConfigJobs
    /\ LET work == Job(history.next_job + 1, 0, "any")
       IN /\ devices' = [d \in DOMAIN devices |->
                            [devices[d] EXCEPT !.work_queue = SubmitWork(d, work).q]]
          /\ history' = [Finished(history, "core_submit_work", 0, Ok, <<>>)
                            EXCEPT !.next_job = @ + 1]
    /\ UNCHANGED <<tasks, channel, collector, collected_results, owner, queue>>

\* lines 759-765 with update_stats (278-346): Err only for a poisoned statistics lock
core_get_stats ==
    /\ owner.pc = "idle"
    /\ \E poisoned \in BOOLEAN :
         history' = Finished(history, "core_get_stats", 0,
                             IF poisoned THEN Err("runtime")
                             ELSE Value([device_count |-> Len(devices)]), <<>>)
    /\ UNCHANGED <<devices, tasks, channel, collector, collected_results, owner, queue>>

NextConfig ==
    \/ core_initialize
    \/ core_start_all
    \/ core_submit_all
    \/ collect_results
    \/ core_get_stats

SpecConfig == InitConfig /\ [][NextConfig]_vars

\* a configuration that asks for no device, for a minimum hash rate not below the
\* maximum, or for an error rate outside 0 % .. 100 %
AsksTheImpossible(config) ==
    \/ config.device_count = Some(0)
    \/ /\ config.min_hashrate # None
       /\ config.max_hashrate # None
       /\ config.min_hashrate.val >= config.max_hashrate.val
    \/ /\ config.error_rate # None
       /\ (config.error_rate.val < 0 \/ config.error_rate.val > 100)

RunTimeOps == {"core_start", "core_submit_work", "collect_results", "core_get_stats"}

MaxStatsDevices == 2
MaxUpdates == 3
MaxManagerClock == 2

RECURSIVE GCD(_, _)
GCD(a, b) == IF b = 0 THEN a ELSE GCD(b, a % b)

Frac(num, den) ==
    IF num = 0 THEN [num |-> 0, den |-> 1]
    ELSE [num |-> num \div GCD(num, den), den |-> den \div GCD(num, den)]

FracAdd(a, b) == Frac(a.num * b.den + b.num * a.den, a.den * b.den)

FracOver(a, count) == Frac(a.num, a.den * count)

\* lines 328-333 (and core.rs 315-320): hashes / elapsed, 0.0 when no time has passed
HashRate(hashes, elapsed) == IF elapsed > 0 THEN Frac(hashes, elapsed) ELSE Frac(0, 1)

\* AtomicStats::new
RatedStats(now) ==
    [total_hashes |-> 0, accepted_work |-> 0, rejected_work |-> 0, hardware_errors |-> 0,
     last_hashrate |-> Frac(0, 1), average_hashrate |-> Frac(0, 1),
     start_time_nanos |-> now, last_update_nanos |-> now]

Registered == DOMAIN devices \ {0}

StatsSlots == 1..MaxStatsDevices

IdleAggregator ==
    [pc |-> "idle", next |-> 0, device_hashrate |-> Frac(0, 1),
     total_hashes |-> 0, total_accepted |-> 0, total_rejected |-> 0,
     total_errors |-> 0, total_hashrate |-> Frac(0, 1)]

\* AtomicStatsManager::new (lines 281-288)
InitManager ==
    /\ QueueUnused
    /\ devices = (0 :> [atomic_stats |-> RatedStats(0)])
    /\ tasks = <<>>
    /\ channel = <<>>
    /\ collector = NoCollector
    /\ collected_results = <<>>
    /\ owner = IdleAggregator
    /\ history = [now |-> 0, updates |-> 0, quiet |-> FALSE, op |-> "none", ret |-> Unit]

\* the clock moves on
manager_tick ==
    /\ history.now < MaxManagerClock
    /\ history' = [history EXCEPT !.now = @ + 1, !.quiet = FALSE]
    /\ UNCHANGED <<devices, tasks, channel, collector, collected_results, owner, queue>>

\* lines 291-298; &mut self: no aggregation is under way
register_device ==
    /\ owner.pc = "idle"
    /\ Cardinality(Registered) < MaxStatsDevices
    /\ devices' = devices @@
                    (Cardinality(Registered) + 1 :> [atomic_stats |-> RatedStats(history.now)])
    /\ history' = [history EXCEPT !.quiet = FALSE, !.op = "register_device", !.ret = Unit]
    /\ UNCHANGED <<tasks, channel, collector, collected_results, owner, queue>>

\* a thread updates the statistics of device d
StatsUpdate(d, after) ==
    /\ d \in Registered
    /\ history.updates < MaxUpdates
    /\ devices' = [devices EXCEPT ![d].atomic_stats = after]
    /\ history' = [history EXCEPT !.updates = @ + 1, !.quiet = FALSE]
    /\ UNCHANGED <<tasks, channel, collector, collected_results, owner, queue>>

\* device.rs lines 122-132
stats_record_hashes(d) ==
    /\ d \in Registered
    /\ \E hashes \in 1..MaxHashes :
         StatsUpdate(d, [devices[d].atomic_stats EXCEPT
                            !.total_hashes = @ + hashes,
                            !.last_update_nanos = history.now])

\* device.rs lines 143-145
stats_increment_accepted(d) ==
    /\ d \in Registered
    /\ StatsUpdate(d, [devices[d].atomic_stats EXCEPT !.accepted_work = @ + 1])

\* device.rs lines 148-150
stats_increment_rejected(d) ==
    /\ d \in Registered
    /\ StatsUpdate(d, [devices[d].atomic_stats EXCEPT !.rejected_work = @ + 1])

\* device.rs lines 153-155
stats_increment_hardware_errors(d) ==
    /\ d \in Registered
    /\ StatsUpdate(d, [devices[d].atomic_stats EXCEPT !.hardware_errors = @ + 1])

\* lines 311-317: the totals start at 0
aggregate_stats ==
    /\ owner.pc = "idle"
    /\ owner' = [IdleAggregator EXCEPT
                    !.pc = IF Registered = {} THEN "aggregate_store" ELSE "aggregate_raw",
                    !.next = 1]
    /\ history' = [history EXCEPT !.quiet = TRUE, !.op = "none", !.ret = Unit]
    /\ UNCHANGED <<devices, tasks, channel, collector, collected_results, queue>>

\* lines 321-333: get_raw_stats of the next device and its hash rate since its start
aggregate_raw(d) ==
    /\ owner.pc = "aggregate_raw"
    /\ d \in Registered
    /\ d = owner.next
    /\ owner' = [owner EXCEPT
                    !.pc = "aggregate_add",
                    !.device_hashrate =
                        HashRate(devices[d].atomic_stats.total_hashes,
                                 history.now - devices[d].atomic_stats.start_time_nanos)]
    /\ UNCHANGED <<devices, tasks, channel, collector, collected_results, history, queue>>

\* lines 335-340: the device's counters are loaded and added to the totals
aggregate_add(d) ==
    /\ owner.pc = "aggregate_add"
    /\ d \in Registered
    /\ d = owner.next
    /\ owner' = [owner EXCEPT
                    !.pc = IF d = Cardinality(Registered)
                           THEN "aggregate_store" ELSE "aggregate_raw",
                    !.next = @ + 1,
                    !.total_hashes = @ + devices[d].atomic_stats.total_hashes,
                    !.total_accepted = @ + devices[d].atomic_stats.accepted_work,
                    !.total_rejected = @ + devices[d].atomic_stats.rejected_work,
                    !.total_errors = @ + devices[d].atomic_stats.hardware_errors,
                    !.total_hashrate = FracAdd(@, owner.device_hashrate)]
    /\ UNCHANGED <<devices, tasks, channel, collector, collected_results, history, queue>>

\* lines 352-356
AverageHashrate(total_hashrate, device_count) ==
    IF device_count > 0 THEN FracOver(total_hashrate, device_count) ELSE Frac(0, 1)

\* line 345
StoredHashesOfLast(total_hashes, last_hashes) == last_hashes
StoredHashes(total_hashes, last_hashes) == total_hashes

\* lines 344-360: the totals are stored in global_stats, which is returned as DeviceStats
aggregate_store ==
    /\ owner.pc = "aggregate_store"
    /\ LET last == IF Registered = {} THEN 0
                   ELSE devices[Cardinality(Registered)].atomic_stats.total_hashes
           avg_hashrate == AverageHashrate(owner.total_hashrate, Cardinality(Registered))
           global == [devices[0].atomic_stats EXCEPT
                         !.total_hashes = StoredHashes(owner.total_hashes, last),
                         !.accepted_work = owner.total_accepted,
                         !.rejected_work = owner.total_rejected,
                         !.hardware_errors = owner.total_errors,
                         !.last_hashrate = owner.total_hashrate,
                         !.average_hashrate = avg_hashrate]
       IN /\ devices' = [devices EXCEPT ![0].atomic_stats = global]
          /\ history' = [history EXCEPT
                           !.op = "aggregate_stats",
                           !.ret = [total_hashes |-> global.total_hashes,
                                    accepted_work |-> global.accepted_work,
                                    rejected_work |-> global.rejected_work,
                                    hardware_errors |-> global.hardware_errors,
                                    current_hashrate |-> owner.total_hashrate,
                                    average_hashrate |-> avg_hashrate]]
    /\ owner' = IdleAggregator
    /\ UNCHANGED <<tasks, channel, collector, collected_results, queue>>

NextManager ==
    \/ manager_tick
    \/ register_device
    \/ \E d \in StatsSlots : stats_record_hashes(d)
    \/ \E d \in StatsSlots : stats_increment_accepted(d)
    \/ \E d \in StatsSlots : stats_increment_rejected(d)
    \/ \E d \in StatsSlots : stats_increment_hardware_errors(d)
    \/ aggregate_stats
    \/ \E d \in StatsSlots : aggregate_raw(d)
    \/ \E d \in StatsSlots : aggregate_add(d)
    \/ aggregate_store

SpecManager == InitManager /\ [][NextManager]_vars

\* the sum of one counter over the registered devices 1..n
RECURSIVE SumOfCounter(_, _)
SumOfCounter(field, n) ==
    IF n = 0 THEN 0 ELSE devices[n].atomic_stats[field] + SumOfCounter(field, n - 1)

Counters == {"total_hashes", "accepted_work", "rejected_work", "hardware_errors"}

\* aggregate_stats has returned and nothing has been updated since it began
AggregatedQuietly == owner.pc = "idle" /\ history.op = "aggregate_stats" /\ history.quiet

\* C26: aggregated counters are sums.  After any sequence of updates of the registered
\* statistics, aggregate_stats returns total hashes, accepted, rejected and
\* hardware-error counts that are each the sum of that counter over the registered
\* devices, and global_stats holds the same sums.
C26_AggregatedCountersAreSums ==
    AggregatedQuietly =>
        \A field \in Counters :
            /\ history.ret[field] = SumOfCounter(field, Cardinality(Registered))
            /\ devices[0].atomic_stats[field] = SumOfCounter(field, Cardinality(Registered))

\* two devices with different counts, every kind of counter used
C26_Witness ==
    /\ AggregatedQuietly
    /\ Cardinality(Registered) = 2
    /\ devices[1].atomic_stats.total_hashes > 0
    /\ devices[2].atomic_stats.total_hashes > devices[1].atomic_stats.total_hashes
    /\ history.ret.total_hashes > devices[2].atomic_stats.total_hashes
    /\ history.ret.accepted_work + history.ret.rejected_work
           + history.ret.hardware_errors > 0

\* the sum over the registered devices 1..n of each device's own hash rate since its
\* start
RECURSIVE SumOfRates(_)
SumOfRates(n) ==
    IF n = 0 THEN Frac(0, 1)
    ELSE FracAdd(HashRate(devices[n].atomic_stats.total_hashes,
                          history.now - devices[n].atomic_stats.start_time_nanos),
                 SumOfRates(n - 1))

\* C25: the aggregate average throughput comes from the raw counters.  The aggregation
\* reports as current throughput the sum of the devices' throughputs and as average
\* throughput the sum of the devices' total hash counts divided by the aggregate elapsed
\* time, not the mean of the devices' own averages.
C25_AverageFromRawCounters ==
    AggregatedQuietly =>
        /\ history.ret.current_hashrate = SumOfRates(Cardinality(Registered))
        /\ history.ret.average_hashrate =
              HashRate(SumOfCounter("total_hashes", Cardinality(Registered)),
                       history.now - devices[0].atomic_stats.start_time_nanos)

\* ======================================================================== core statistics
\* SoftwareMiningCore::get_stats with update_stats (core.rs lines 278-346, 759-765).
\* devices[1..n] are the core's devices, whose loops go on hashing; what a device's
\* hash rate tracker reports as current hash rate is drawn when the core asks it.
\* `collector` carries the core's own fields, here start_time and stats.
CurrentHashrates == {Frac(0, 1), Frac(1, 1), Frac(3, 2)}

\* the core after initialize(), started at time 0 or not started
StatsCore(start_time) ==
    [running |-> start_time # None, pc |-> "none", result |-> NoSolution,
     accepted_work |-> 0, start_time |-> start_time,
     stats |-> [total_hashrate |-> Frac(0, 1), average_hashrate |-> Frac(0, 1),
                accepted_work |-> 0, rejected_work |-> 0, hardware_errors |-> 0]]

IdleUpdater ==
    [pc |-> "idle", next |-> 0, current_time |-> 0,
     total_hashes |-> 0, total_accepted |-> 0, total_rejected |-> 0,
     total_errors |-> 0, total_hashrate |-> Frac(0, 1)]

InitCoreStats ==
    /\ QueueUnused
    /\ devices = [d \in 1..NumDevices |-> [atomic_stats |-> RatedStats(0)]]
    /\ tasks = <<>>
    /\ channel = <<>>
    /\ \E start_time \in {None, Some(0)} : collector = StatsCore(start_time)
    /\ collected_results = <<>>
    /\ owner = IdleUpdater
    /\ history = [now |-> 0, updates |-> 0, quiet |-> FALSE, op |-> "none", ret |-> Unit,
                  currents |-> Frac(0, 1)]

\* lines 279-290: the totals start at 0, current_time is read
core_update_stats ==
    /\ owner.pc = "idle"
    /\ owner' = [IdleUpdater EXCEPT !.pc = "stats_device", !.next = 1,
                                    !.current_time = history.now]
    /\ history' = [history EXCEPT !.quiet = TRUE, !.op = "none", !.ret = Unit,
                                  !.currents = Frac(0, 1)]
    /\ UNCHANGED <<devices, tasks, channel, collector, collected_results, queue>>

\* lines 292-306: device.get_stats() of the next device is added to the totals
core_stats_device(d) ==
    /\ owner.pc = "stats_device"
    /\ d \in DOMAIN devices
    /\ d = owner.next
    /\ \E current_hashrate \in CurrentHashrates :
         /\ owner' = [owner EXCEPT
                        !.pc = IF d = Len(devices) THEN "stats_store" ELSE "stats_device",
                        !.next = @ + 1,
                        !.total_accepted = @ + devices[d].atomic_stats.accepted_work,
                        !.total_rejected = @ + devices[d].atomic_stats.rejected_work,
                        !.total_errors = @ + devices[d].atomic_stats.hardware_errors,
                        !.total_hashes = @ + devices[d].atomic_stats.total_hashes,
                        !.total_hashrate = FracAdd(@, current_hashrate)]
         /\ history' = [history EXCEPT !.currents = FracAdd(@, current_hashrate)]
    /\ UNCHANGED <<devices, tasks, channel, collector, collected_results, queue>>

\* lines 309-320: the core's average hash rate from the summed hashes and the time since
\* the core was started
CoreAverageHashrate(total_hashes, total_hashrate, current_time, start_time) ==
    HashRate(total_hashes,
             current_time - (IF start_time = None THEN current_time ELSE start_time.val))

\* lines 322-345 and 761-764: the statistics are written and a copy is returned
core_stats_store ==
    /\ owner.pc = "stats_store"
    /\ LET stats == [total_hashrate |-> owner.total_hashrate,
                     average_hashrate |->
                         CoreAverageHashrate(owner.total_hashes, owner.total_hashrate,
                                             owner.current_time, collector.start_time),
                     accepted_work |-> owner.total_accepted,
                     rejected_work |-> owner.total_rejected,
                     hardware_errors |-> owner.total_errors]
       IN /\ collector' = [collector EXCEPT !.stats = stats]
          /\ history' = [history EXCEPT !.op = "core_get_stats", !.ret = stats]
    /\ owner' = IdleUpdater
    /\ UNCHANGED <<devices, tasks, channel, collected_results, queue>>

NextCoreStats ==
    \/ manager_tick
    \/ \E d \in DeviceSlots : stats_record_hashes(d)
    \/ \E d \in DeviceSlots : stats_increment_accepted(d)
    \/ core_update_stats
    \/ \E d \in DeviceSlots : core_stats_device(d)
    \/ core_stats_store

SpecCoreStats == InitCoreStats /\ [][NextCoreStats]_vars

\* The core's own get_stats, having returned with nothing updated since it began:
\* current throughput the sum of what the devices reported, average throughput the
\* summed hash counts over the time since the core's start.
CoreStatsFromRawCounters ==
    (owner.pc = "idle" /\ history.op = "core_get_stats" /\ history.quiet) =>
        /\ history.ret.total_hashrate = history.currents
        /\ history.ret.average_hashrate =
              HashRate(SumOfCounter("total_hashes", Len(devices)),
                       IF collector.start_time = None THEN 0
                       ELSE history.now - collector.start_time.val)
\* ======================================================================== CPU affinity
\* CpuAffinityManager (cpu_affinity.rs lines 103-330).  `collector` carries the
\* manager's fields and the number of physical cores num_cpus reports; a CoreId is the
\* number the operating system gives the core, which need not be its index in
\* available_cores.
MaxCores == 3
MaxAffinityDevice == 4

AffinityDeviceIds == 0..MaxAffinityDevice

\* get_core_ids(): none, or the cores the process may run on
CoreLists ==
    {<<>>} \cup {[i \in 1..n |-> first + i - 1] : n \in 1..MaxCores, first \in {0, 2}}

PhysicalCounts == {2, 4}

\* Manual(mapping): no entry, an entry inside and an entry outside available_cores
ManualMappings == {<<>>, (0 :> 1), (1 :> MaxCores + 1)}

Strategies ==
    {[kind |-> k, mapping |-> <<>>] :
        k \in {"RoundRobin", "PerformanceFirst", "PhysicalCoresOnly", "Intelligent",
               "LoadBalanced"}}
    \cup {[kind |-> "Manual", mapping |-> m] : m \in ManualMappings}

\* lines 133-159
NewManager(enabled, strategy, cores, physical) ==
    [available_cores |-> cores, device_core_mapping |-> <<>>,
     enabled |-> enabled /\ cores # <<>>, strategy |-> strategy,
     physical_count |-> physical]

InitAffinity ==
    /\ QueueUnused
    /\ devices = <<>>
    /\ tasks = <<>>
    /\ channel = <<>>
    /\ \E enabled \in BOOLEAN, strategy \in Strategies, cores \in CoreLists,
          physical \in PhysicalCounts :
         collector = NewManager(enabled, strategy, cores, physical)
    /\ collected_results = <<>>
    /\ owner = IdleOwner
    /\ history = NewHistory

\* available_cores[index], the index counted from 0
CoreAt(cores, index) == cores[index + 1]

\* lines 195, 205, 210, 230, 247
RoundRobinIndex(device_id, len) == device_id % len

\* line 254
LoadBalancedTwice(device_id, len) == (device_id * 2) % len
LoadBalancedIndex(device_id, len) == device_id % len

\* lines 222-226: the cores at the even indices
PhysicalCores(cores) == [i \in 1..((Len(cores) + 1) \div 2) |-> cores[2 * i - 1]]

\* lines 192-257, for a manager that is enabled
ChosenCore(manager, device_id) ==
    LET cores == manager.available_cores
        len == Len(cores)
        mapping == manager.strategy.mapping
        physical_cores == PhysicalCores(cores)
    IN CASE manager.strategy.kind = "RoundRobin" ->
              CoreAt(cores, RoundRobinIndex(device_id, len))
         [] manager.strategy.kind = "Manual" ->
              IF device_id \in DOMAIN mapping /\ mapping[device_id] < len
              THEN CoreAt(cores, mapping[device_id])
              ELSE CoreAt(cores, RoundRobinIndex(device_id, len))
         [] manager.strategy.kind = "PerformanceFirst" ->
              CoreAt(cores, device_id % (IF len \div 2 >= 1 THEN len \div 2 ELSE 1))
         [] manager.strategy.kind = "PhysicalCoresOnly" ->
              IF physical_cores = <<>>
              THEN CoreAt(cores, RoundRobinIndex(device_id, len))
              ELSE CoreAt(physical_cores, device_id % Len(physical_cores))
         [] manager.strategy.kind = "Intelligent" ->
              IF manager.physical_count >= 4 /\ device_id < manager.physical_count
              THEN CoreAt(cores, (device_id * 2) % len)
              ELSE CoreAt(cores, RoundRobinIndex(device_id, len))
         [] manager.strategy.kind = "LoadBalanced" ->
              CoreAt(cores, LoadBalancedIndex(device_id, len))

\* lines 182-264: the value returned
AssignedUnlessEmpty(manager, device_id) ==
    IF manager.available_cores = <<>> THEN None
    ELSE Some(ChosenCore(manager, device_id))
AssignedCore(manager, device_id) ==
    IF ~manager.enabled THEN None
    ELSE IF manager.available_cores = <<>> THEN None
    ELSE Some(ChosenCore(manager, device_id))

\* lines 182-264
assign_cpu_core(device_id) ==
    /\ owner.pc = "idle"
    /\ LET core_id == AssignedCore(collector, device_id)
       IN /\ collector' =
                IF core_id = None THEN collector
                ELSE [collector EXCEPT !.device_core_mapping =
                         (device_id :> core_id.val) @@ @]
          /\ history' = Finished(history, "assign_cpu_core", device_id, core_id,
                                 collector.device_core_mapping)
    /\ UNCHANGED <<devices, tasks, channel, collected_results, owner, queue>>

\* lines 267-269
GetDeviceCore(manager, device_id) ==
    IF device_id \in DOMAIN manager.device_core_mapping
    THEN Some(manager.device_core_mapping[device_id]) ELSE None

get_device_core(device_id) ==
    /\ owner.pc = "idle"
    /\ history' = Finished(history, "get_device_core", device_id,
                           GetDeviceCore(collector, device_id), <<>>)
    /\ UNCHANGED <<devices, tasks, channel, collector, collected_results, owner, queue>>

\* lines 272-295: set_for_current may refuse
bind_current_thread(device_id) ==
    /\ owner.pc = "idle"
    /\ \E bound \in BOOLEAN :
         history' = Finished(history, "bind_current_thread", device_id,
                             IF ~collector.enabled THEN Ok
                             ELSE IF GetDeviceCore(collector, device_id) = None
                             THEN Err("unassigned")
                             ELSE IF bound THEN Ok ELSE Err("bind"), <<>>)
    /\ UNCHANGED <<devices, tasks, channel, collector, collected_results, owner, queue>>

NextAffinity ==
    \/ \E device_id \in AffinityDeviceIds : assign_cpu_core(device_id)
    \/ \E device_id \in AffinityDeviceIds : get_device_core(device_id)
    \/ \E device_id \in AffinityDeviceIds : bind_current_thread(device_id)

SpecAffinity == InitAffinity /\ [][NextAffinity]_vars

RoundRobinKinds == {"RoundRobin", "LoadBalanced"}

WithStrategy(manager, kind) ==
    [manager EXCEPT !.strategy = [kind |-> kind, mapping |-> <<>>]]

Stopped(d) ==
    /\ ~(owner.pc \in {"stop_abort", "stop_clear"} /\ owner.dev = d)
    /\ devices[d].status = "Idle"
    /\ devices[d].mining_stop_signal
    /\ devices[d].mining_task_handle = 0

\* a loop task takes a step
LoopStep == tasks' # tasks /\ owner' = owner

\* C28: cancellation leaves the statistics consistent: once stop() has returned, and
\* until the next start, no step of a loop of that device changes its hash counter or
\* its accepted counter, whether the loop ends at the stop flag or by the abort of its
\* task; the counters of a stopped device so stay as a reset() leaves them.
C28_StoppedLoopsLeaveCounters ==
    [][\A d \in DeviceIds :
          (Stopped(d) /\ LoopStep) =>
             /\ devices'[d].atomic_stats.total_hashes = devices[d].atomic_stats.total_hashes
             /\ devices'[d].atomic_stats.accepted_work
                   = devices[d].atomic_stats.accepted_work]_vars
\* ======================================================================== job switch
\* The loops of start_continuous_mining (device.rs lines 727-786) and of start
\* (912-945) fed with jobs whose ids may repeat: the caller makes the Work, and with it
\* its id.
MaxJobId == 2
MaxSwitchJobs == 3
MaxSwitchRounds == 2

JobIds == 1..MaxJobId

\* lines 1006-1021, with a job the caller made: an id of JobIds, used before or not
submit_identified_work(d) ==
    /\ d \in DeviceIds
    /\ owner.pc = "idle"
    /\ history.next_job < MaxSwitchJobs
    /\ \E i \in JobIds, target \in {"any", "hard"} :
         LET r == SubmitWork(d, Job(i, 0, target))
         IN /\ devices' = [devices EXCEPT ![d].work_queue = r.q]
            /\ history' = [Finished(history, "submit_work", d, r.ret, <<>>)
                              EXCEPT !.next_job = @ + 1]
    /\ UNCHANGED <<tasks, channel, collector, collected_results, owner, queue>>

continuous_rounds(k) == ContinuousBatch(k, MaxSwitchRounds)

NextSwitch ==
    \/ \E d \in DeviceSlots :
        \/ start(d)
        \/ start_continuous_mining(d)
        \/ submit_identified_work(d)
    \/ \E k \in TaskSlots :
        \/ task_check(k)
        \/ task_dequeue(k)
        \/ task_wake(k)
        \/ task_mine(k)
        \/ task_stats(k)
        \/ continuous_check(k)
        \/ continuous_switch(k)
        \/ continuous_rounds(k)
        \/ continuous_hashes(k)

SpecSwitch == InitFaultless /\ [][NextSwitch]_vars

\* what the continuous loop k finds at the head of its queue
NextInQueue(k) == QueueDequeue(devices[tasks[k].dev].work_queue).ret

\* loop k passes lines 732-738: it polls the queue
PollStep(k) == tasks[k].pc = "switch" /\ tasks'[k].pc # "switch"

\* loop k runs a batch
BatchStep(k) == tasks[k].pc = "batch" /\ tasks'[k].pc = "hashes"

\* the results found in this step
FoundInStep == SubSeq(history'.found, Len(history.found) + 1, Len(history'.found))

\* C29: job switch in the continuous loop.  When the loop dequeues a job whose id
\* differs from the id of its current job, the dequeued job becomes the current job and
\* the nonce counter restarts from 0; a dequeued job with the id of the current job
\* leaves job and counter as they are.  Every batch takes its candidates from the
\* current job, counting on from the counter, and nothing but a poll of the queue
\* changes the current job: no batch after a switch uses the superseded job.
C29_JobSwitch ==
    [][\A k \in TaskSlots :
          (k \in DOMAIN tasks /\ tasks[k].kind = "continuous") =>
             /\ PollStep(k) =>
                   IF NextInQueue(k) # None /\ NextInQueue(k).val.id # tasks[k].work.id
                   THEN /\ tasks'[k].work = NextInQueue(k).val
                        /\ tasks'[k].nonce_iterator = 0
                   ELSE /\ tasks'[k].work = tasks[k].work
                        /\ tasks'[k].nonce_iterator = tasks[k].nonce_iterator
             /\ BatchStep(k) =>
                   /\ \A i \in DOMAIN FoundInStep :
                         /\ FoundInStep[i].by = k
                         /\ FoundInStep[i].result.work_id = tasks[k].work.id
                   /\ tasks'[k].nonce_iterator = tasks[k].nonce_iterator + BatchSize
             /\ ~PollStep(k) => tasks'[k].work = tasks[k].work
             /\ (~PollStep(k) /\ ~BatchStep(k)) =>
                   tasks'[k].nonce_iterator = tasks[k].nonce_iterator]_vars

\* a continuous loop has run a batch on job 1, switched to job 2 and run a batch on
\* it: the counter stands at one batch again, and a second job 2 was dequeued since
\* and changed nothing
C29_Witness ==
    \E k \in DOMAIN tasks :
        /\ tasks[k].kind = "continuous"
        /\ tasks[k].pc = "batch"
        /\ history.rounds = 2
        /\ history.next_job = 3
        /\ devices[tasks[k].dev].work_queue.pending_work = <<>>
        /\ tasks[k].work = Job(2, 0, "any")
        /\ tasks[k].nonce_iterator = BatchSize
        /\ \E i, j \in DOMAIN history.found :
              /\ i < j
              /\ history.found[i].by = k /\ history.found[i].result.work_id = 1
              /\ history.found[j].by = k /\ history.found[j].result.work_id = 2
\* ======================================================================== batch updater
\* BatchStatsUpdater (device.rs lines 218-305) on the AtomicStats of one device, which
\* the loops of the device update directly at the same time.  `collector` carries the
\* updater's fields; the clock is history.now, last_flush an instant of it.
MaxAdds == 2
MaxAddCount == 1
MaxFlushClock == 2
MaxDirect == 1

AddCounts == 0..MaxAddCount

\* batch_interval_ms: none, or some ticks of the clock
BatchIntervals == 0..MaxFlushClock

\* lines 231-241
TimedBatchStatsUpdater(now, batch_interval) ==
    [local_hashes |-> 0, local_accepted |-> 0, local_rejected |-> 0, local_errors |-> 0,
     last_flush |-> now, batch_interval |-> batch_interval]

InitBatch ==
    /\ QueueUnused
    /\ devices = <<[atomic_stats |-> NewAtomicStats]>>
    /\ tasks = <<>>
    /\ channel = <<>>
    /\ \E batch_interval \in BatchIntervals :
         collector = TimedBatchStatsUpdater(0, batch_interval)
    /\ collected_results = <<>>
    /\ owner = IdleOwner
    /\ history = [now |-> 0, added |-> NewAtomicStats, direct |-> 0, adds |-> 0,
                  last |-> NoCall]

\* Instant::now() moves on
batch_tick ==
    /\ history.now < MaxFlushClock
    /\ history' = [history EXCEPT !.now = @ + 1]
    /\ UNCHANGED <<devices, tasks, channel, collector, collected_results, owner, queue>>

\* lines 780-785: a loop of the device calls record_hashes on the same AtomicStats
loop_record_hashes ==
    /\ history.direct < MaxDirect
    /\ devices' = [devices EXCEPT ![1].atomic_stats = RecordHashes(@, 1)]
    /\ history' = [history EXCEPT !.direct = @ + 1]
    /\ UNCHANGED <<tasks, channel, collector, collected_results, owner, queue>>

\* line 269: self.last_flush.elapsed() >= self.batch_interval
FlushDue(updater, now) == now - updater.last_flush >= updater.batch_interval

\* lines 279, 286, 293, 300: the local count after it was committed
LocalKept(local) == local
LocalCleared(local) == 0

\* lines 275-304: the updater after force_flush
Flushed(updater, now) ==
    [updater EXCEPT !.local_hashes = LocalCleared(@),
                    !.local_accepted = LocalCleared(@),
                    !.local_rejected = LocalCleared(@),
                    !.local_errors = LocalCleared(@),
                    !.last_flush = now]

\* what the updater has committed and what it holds, as a call finds it
UpdaterSnapshot ==
    [atomic_stats |-> devices[1].atomic_stats, direct |-> history.direct,
     elapsed |-> history.now - collector.last_flush]

\* lines 244-272: add_hashes, add_accepted, add_rejected and add_errors are one method
\* on four fields: the count goes to the local field, then try_flush
BatchAdd(name, local, counter) ==
    /\ owner.pc = "idle"
    /\ history.adds < MaxAdds
    /\ \E count \in AddCounts :
         LET accumulated == [collector EXCEPT ![local] = @ + count]
         IN /\ IF FlushDue(accumulated, history.now)
               THEN /\ devices' = [devices EXCEPT ![1].atomic_stats =
                                      ForceFlush(@, accumulated)]
                    /\ collector' = Flushed(accumulated, history.now)
               ELSE /\ devices' = devices
                    /\ collector' = accumulated
            /\ history' = [Finished(history, name, 1, Unit, UpdaterSnapshot)
                              EXCEPT !.adds = @ + 1, !.added[counter] = @ + count]
    /\ UNCHANGED <<tasks, channel, collected_results, owner, queue>>

\* lines 244-247
add_hashes == BatchAdd("add_hashes", "local_hashes", "total_hashes")

\* lines 250-253
add_accepted == BatchAdd("add_accepted", "local_accepted", "accepted_work")

\* lines 256-259
add_rejected == BatchAdd("add_rejected", "local_rejected", "rejected_work")

\* lines 262-265
add_errors == BatchAdd("add_errors", "local_errors", "hardware_errors")

\* lines 275-304
force_flush ==
    /\ owner.pc = "idle"
    /\ history.last.op # "force_flush"
    /\ devices' = [devices EXCEPT ![1].atomic_stats = ForceFlush(@, collector)]
    /\ collector' = Flushed(collector, history.now)
    /\ history' = Finished(history, "force_flush", 1, Unit, UpdaterSnapshot)
    /\ UNCHANGED <<tasks, channel, collected_results, owner, queue>>

NextBatch ==
    \/ batch_tick
    \/ loop_record_hashes
    \/ add_hashes
    \/ add_accepted
    \/ add_rejected
    \/ add_errors
    \/ force_flush

SpecBatch == InitBatch /\ [][NextBatch]_vars

\* what the updater has committed: the counters less what the loops recorded themselves
CommittedByUpdater ==
    [devices[1].atomic_stats EXCEPT !.total_hashes = @ - history.direct]

\* what the updater holds, under the names of the counters
PendingInUpdater ==
    [total_hashes |-> collector.local_hashes, accepted_work |-> collector.local_accepted,
     rejected_work |-> collector.local_rejected,
     hardware_errors |-> collector.local_errors]

AddOps == {"add_hashes", "add_accepted", "add_rejected", "add_errors"}

\* C30: the batch updater conserves counts.  Between its calls, for each of the four
\* counters, what it has committed to the atomic counters and what it holds locally add
\* up to what was added: every count is committed once and only once.  An addition made
\* before the flush interval has elapsed commits nothing, and after force_flush the four
\* local counts are 0.
C30_BatchConservesCounts ==
    /\ \A c \in DOMAIN NewAtomicStats :
          CommittedByUpdater[c] + PendingInUpdater[c] = history.added[c]
    /\ (/\ history.last.op \in AddOps
        /\ history.last.pre.elapsed < collector.batch_interval) =>
          CommittedByUpdater =
             [history.last.pre.atomic_stats EXCEPT
                 !.total_hashes = @ - history.last.pre.direct]
    /\ history.last.op = "force_flush" =>
          PendingInUpdater = NewAtomicStats

\* a hash was added when the interval was over and committed, a loop recorded one of
\* its own, and an accepted share added before the next interval was over is held
\* locally
C30_Witness ==
    /\ history.last.op = "add_accepted"
    /\ history.last.pre.elapsed < collector.batch_interval
    /\ history.direct = 1
    /\ devices[1].atomic_stats.total_hashes = 2
    /\ history.added.total_hashes = 1
    /\ collector.local_hashes = 0
    /\ collector.local_accepted = 1
    /\ devices[1].atomic_stats.accepted_work = 0
\* ======================================================================== batch size
\* adjusted_batch_size of mine_work_static (device.rs lines 483-488) and of mine_work
\* (575-582).  target_hashrate is an f64 and batch_size a u32: the quotient is clamped
\* as an f64 and then cast, which drops the fraction.  `devices` holds the two fields,
\* target_hashrate in whole hashes per second.
MaxTargetHashrate == 45
MaxBatchSize == 2
StaticWindows == 10
StaticMaxFactor == 2
Windows == 5
MaxFactor == 5

TargetHashrates == (-1)..MaxTargetHashrate
BatchSizes == 0..MaxBatchSize

InitBatchSize ==
    /\ QueueUnused
    /\ \E target_hashrate \in TargetHashrates, batch_size \in BatchSizes :
         devices = <<[target_hashrate |-> target_hashrate, batch_size |-> batch_size]>>
    /\ tasks = <<>>
    /\ channel = <<>>
    /\ collector = NoCollector
    /\ collected_results = <<>>
    /\ owner = IdleOwner
    /\ history = NewHistory

Max(a, b) == IF a >= b THEN a ELSE b

\* f64::max then f64::min on a quotient num / den, the bounds being whole numbers: the
\* result as a quotient over den
ClampLow(num, den, low, high) == Max(num, low * den)
Clamp(num, den, low, high) == Min(Max(num, low * den), high * den)

\* `as u32` on a quotient that is not negative: the fraction is dropped (the cast
\* saturates at u32::MAX, which a batch size of at most MaxBatchSize does not reach)
AsU32(num, den) == num \div den

\* lines 484-488 and 577-582
AdjustedBatchSize(target_hashrate, batch_size, windows, factor) ==
    IF target_hashrate > 0
    THEN AsU32(Clamp(target_hashrate, windows, batch_size, batch_size * factor), windows)
    ELSE batch_size

\* lines 483-491 of mine_work_static: the batch the loop of start() runs
static_batch_size ==
    /\ owner.pc = "idle"
    /\ history.last.op # "mine_work_static"
    /\ history' = Finished(history, "mine_work_static", 1,
                           Value(AdjustedBatchSize(devices[1].target_hashrate,
                                                   devices[1].batch_size,
                                                   StaticWindows, StaticMaxFactor)),
                           <<>>)
    /\ UNCHANGED <<devices, tasks, channel, collector, collected_results, owner, queue>>

\* lines 575-585 of mine_work: the batch get_result runs
pulled_batch_size ==
    /\ owner.pc = "idle"
    /\ history.last.op # "mine_work"
    /\ history' = Finished(history, "mine_work", 1,
                           Value(AdjustedBatchSize(devices[1].target_hashrate,
                                                   devices[1].batch_size,
                                                   Windows, MaxFactor)),
                           <<>>)
    /\ UNCHANGED <<devices, tasks, channel, collector, collected_results, owner, queue>>

NextBatchSize ==
    \/ static_batch_size
    \/ pulled_batch_size

SpecBatchSize == InitBatchSize /\ [][NextBatchSize]_vars

\* the divisor and the factor of the method that returned last
WindowsOfLast == IF history.last.op = "mine_work_static" THEN StaticWindows ELSE Windows

FactorOfLast == IF history.last.op = "mine_work_static" THEN StaticMaxFactor ELSE MaxFactor

\* C31: the adaptive batch size is clamped.  For a target throughput above 0 the batch
\* is the target divided by the windows per second, held between the configured batch
\* size and a fixed multiple of it; it does not fall when the target rises; for a
\* target of 0 or below it is the configured batch size.
C31_BatchSizeClamped ==
    history.last.op \in {"mine_work_static", "mine_work"} =>
        LET target == devices[1].target_hashrate
            batch == devices[1].batch_size
            size == history.last.ret.val
        IN /\ target <= 0 => size = batch
           /\ target > 0 =>
                 /\ batch <= size
                 /\ size <= batch * FactorOfLast
                 /\ (batch * WindowsOfLast <= target
                        /\ target < batch * FactorOfLast * WindowsOfLast) =>
                       size = target \div WindowsOfLast
                 /\ \A lower \in 1..target :
                       AdjustedBatchSize(lower, batch, WindowsOfLast, FactorOfLast) <= size

\* a target of 35 H/s with a configured batch of 2: mine_work_static asks for 3
\* candidates, between 2 and 4
C31_Witness ==
    /\ history.last.op = "mine_work_static"
    /\ devices[1].target_hashrate = 35
    /\ devices[1].batch_size = 2
    /\ history.last.ret = Value(3)
\* ======================================================================== hash rate tracker
\* HashrateTracker (device.rs lines 1218-1309).  `collector` carries the tracker's
\* fields; the four averages are f64 values kept in AtomicU64 cells by their bits, here
\* fractions in lowest terms, of which only 0.0 has the bits 0.  The clock history.now
\* counts twentieths of a second since start_time, and rates are hashes per such unit.
MaxTrackerClock == 6
MaxTrackerHashes == 2
MaxTrackerAdds == 2
MinElapsed == 2

FracSub(a, b) == Frac(a.num * b.den - b.num * a.den, a.den * b.den)

FracMul(a, b) == Frac(a.num * b.num, a.den * b.den)

\* the windows of 5 s, 1 min, 5 min and 15 min
TrackerWindows == 1..4

\* lines 1237-1252
NewTracker ==
    [total_hashes |-> 0, last_update_time |-> 0,
     avg |-> [w \in TrackerWindows |-> Frac(0, 1)]]

InitTracker ==
    /\ QueueUnused
    /\ devices = <<>>
    /\ tasks = <<>>
    /\ channel = <<>>
    /\ collector = NewTracker
    /\ collected_results = <<>>
    /\ owner = IdleOwner
    /\ history = [now |-> 0, adds |-> 0, effective |-> 0, last |-> NoCall]

\* start_time.elapsed() moves on
tracker_tick ==
    /\ history.now < MaxTrackerClock
    /\ history' = [history EXCEPT !.now = @ + 1]
    /\ UNCHANGED <<devices, tasks, channel, collector, collected_results, owner, queue>>

\* lines 1255-1257, called by the loops of the device
tracker_add_hashes ==
    /\ history.adds < MaxTrackerAdds
    /\ \E hashes \in 1..MaxTrackerHashes :
         collector' = [collector EXCEPT !.total_hashes = @ + hashes]
    /\ history' = [history EXCEPT !.adds = @ + 1]
    /\ UNCHANGED <<devices, tasks, channel, collected_results, owner, queue>>

\* lines 1283-1286: 1 - exp(-elapsed_secs / w) for the four windows lies between 0 and
\* 1, rises with the time elapsed and falls with the window; a table of such values
\* stands for it
Alphas(elapsed) ==
    IF elapsed > MinElapsed
    THEN <<Frac(3, 4), Frac(1, 2), Frac(1, 4), Frac(1, 8)>>
    ELSE <<Frac(1, 2), Frac(1, 4), Frac(1, 8), Frac(1, 16)>>

\* lines 1301-1305: a cell whose bits are 0 counts as not yet written
OldValue(old, current_value) == IF old = Frac(0, 1) THEN current_value ELSE old

\* lines 1299-1309
UpdateEma(old, current_value, alpha) ==
    LET old_value == OldValue(old, current_value)
    IN FracAdd(old_value, FracMul(alpha, FracSub(current_value, old_value)))

\* lines 1260-1297.  total_elapsed is not 0 where elapsed_secs is at least 0.1.
update_averages ==
    /\ owner.pc = "idle"
    /\ LET now_nanos == history.now
           last_update == collector.last_update_time
           elapsed == now_nanos - last_update
           current_hashrate == HashRate(collector.total_hashes, now_nanos)
           alphas == Alphas(elapsed)
           pre == [avg |-> collector.avg, current |-> current_hashrate,
                   alphas |-> alphas, effective |-> history.effective]
       IN IF now_nanos <= last_update \/ elapsed < MinElapsed
          THEN /\ history.last.op # "update_averages"
               /\ history' = Finished(history, "update_averages", 0, Value(FALSE), pre)
               /\ UNCHANGED collector
          ELSE /\ collector' =
                    [collector EXCEPT
                        !.avg = [w \in TrackerWindows |->
                                    UpdateEma(collector.avg[w], current_hashrate,
                                              alphas[w])],
                        !.last_update_time = now_nanos]
               /\ history' = [Finished(history, "update_averages", 0, Value(TRUE), pre)
                                 EXCEPT !.effective = @ + 1]
    /\ UNCHANGED <<devices, tasks, channel, collected_results, owner, queue>>

NextTracker ==
    \/ tracker_tick
    \/ tracker_add_hashes
    \/ update_averages

SpecTracker == InitTracker /\ [][NextTracker]_vars

\* update_averages has just run and was not a no-op
EffectiveTick == history.last.op = "update_averages" /\ history.last.ret = Value(TRUE)

\* C32: the estimator is seeded once.  After the first effective update tick each of
\* the window averages equals the rate observed in it; after every later effective
\* tick each average is avg + alpha * (current - avg), with the average it held before
\* and its own alpha, and is not replaced by the current rate again.
C32_SeededOnce ==
    EffectiveTick =>
        LET pre == history.last.pre
        IN \A w \in TrackerWindows :
              collector.avg[w] =
                 IF pre.effective = 0 THEN pre.current
                 ELSE FracAdd(pre.avg[w],
                              FracMul(pre.alphas[w], FracSub(pre.current, pre.avg[w])))


\* Manual names no core of the list for the worker
ManualMisses(manager, w) ==
    /\ manager.strategy.kind = "Manual"
    /\ \/ w \notin DOMAIN manager.strategy.mapping
       \/ manager.strategy.mapping[w] >= Len(manager.available_cores)

\* C33: with affinity enabled and at least one visible core, assign_cpu_core under
\* every strategy returns a core of the visible-core list and records it as the
\* worker's assignment; a manual mapping that has no entry for the worker, or an entry
\* past the end of the list, gives the round-robin core; with affinity disabled or no
\* visible core the call returns None and leaves the recorded assignments as they were.
C33_AssignmentTotalInRange ==
    JustReturned("assign_cpu_core") =>
        LET cores == collector.available_cores
            w == history.last.dev
            got == history.last.ret
        IN IF collector.enabled /\ cores # <<>>
           THEN /\ got # None
                /\ got.val \in Range(cores)
                /\ GetDeviceCore(collector, w) = got
                /\ ManualMisses(collector, w) => got = Some(cores[(w % Len(cores)) + 1])
           ELSE /\ got = None
                /\ collector.device_core_mapping = history.last.pre

\* worker 1 is mapped to index 4 of the three cores 2, 3, 4 and gets core 3 by round
\* robin
C33_Witness ==
    /\ JustReturned("assign_cpu_core")
    /\ collector.enabled
    /\ collector.strategy.kind = "Manual"
    /\ collector.strategy.mapping = (1 :> MaxCores + 1)
    /\ collector.available_cores = <<2, 3, 4>>
    /\ history.last.dev = 1
    /\ history.last.ret = Some(3)
    /\ GetDeviceCore(collector, 1) = Some(3)
\* ======================================================================== closed channel
\* The mining loop of start() (device.rs lines 912-945) with mine_work_static (468-565)
\* on a device whose result_sender is set, where the receiving half of the channel may
\* be dropped.  `channel` carries the channel, `tasks` the one loop, `history` the sends
\* the loop has attempted.
MaxClosedJobs == 3

ClosedWorks == [id : 1..MaxClosedJobs, meets : BOOLEAN]

InitClosed ==
    /\ QueueUnused
    /\ devices = <<[status |-> "Running", mining_stop_signal |-> FALSE,
                    work_queue |-> <<>>, total_hashes |-> 0, accepted |-> 0]>>
    /\ tasks = <<[pc |-> "check", work |-> NoWork]>>
    /\ channel = [receiver |-> TRUE, buffer |-> <<>>]
    /\ collector = NoCollector
    /\ collected_results = <<>>
    /\ owner = IdleOwner
    /\ history = [submitted |-> 0, sends |-> 0, failed |-> 0, after_failure |-> 0]

\* lines 997-1015: submit_work of a running device
closed_submit_work ==
    /\ history.submitted < MaxClosedJobs
    /\ \E meets \in BOOLEAN :
         devices' = [devices EXCEPT ![1].work_queue =
                        Append(@, [id |-> history.submitted + 1, meets |-> meets])]
    /\ history' = [history EXCEPT !.submitted = @ + 1]
    /\ UNCHANGED <<tasks, channel, collector, collected_results, owner, queue>>

\* the UnboundedReceiver is dropped: from then on send returns Err
drop_receiver ==
    /\ channel.receiver
    /\ channel' = [channel EXCEPT !.receiver = FALSE]
    /\ UNCHANGED <<devices, tasks, collector, collected_results, owner, history, queue>>

\* core.rs line 437: the collector takes a result out of the channel
closed_recv ==
    /\ channel.receiver
    /\ channel.buffer # <<>>
    /\ channel' = [channel EXCEPT !.buffer = Tail(@)]
    /\ collected_results' = Append(collected_results, Head(channel.buffer))
    /\ UNCHANGED <<devices, tasks, collector, owner, history, queue>>

\* lines 961-994: stop() raises the flag and sets the status
closed_stop ==
    /\ devices[1].status = "Running"
    /\ devices' = [devices EXCEPT ![1].mining_stop_signal = TRUE, ![1].status = "Idle"]
    /\ UNCHANGED <<tasks, channel, collector, collected_results, owner, history, queue>>

\* line 915: the head of the loop; line 944: the loop has ended
closed_loop_check ==
    /\ tasks[1].pc = "check"
    /\ tasks' = [tasks EXCEPT ![1].pc =
                    IF devices[1].mining_stop_signal THEN "stopped" ELSE "dequeue"]
    /\ UNCHANGED <<devices, channel, collector, collected_results, owner, history, queue>>

\* lines 917 and 938-941: a job, or a sleep of 1 ms
closed_loop_dequeue ==
    /\ tasks[1].pc = "dequeue"
    /\ IF devices[1].work_queue = <<>>
       THEN /\ tasks' = [tasks EXCEPT ![1].pc = "check"]
            /\ UNCHANGED devices
       ELSE /\ tasks' = [tasks EXCEPT ![1].pc = "mine",
                                      ![1].work = Head(devices[1].work_queue)]
            /\ devices' = [devices EXCEPT ![1].work_queue = Tail(@)]
    /\ UNCHANGED <<channel, collector, collected_results, owner, history, queue>>

\* line 525: UnboundedSender::send fails exactly when the receiver is gone
SendSucceeds(chan) == chan.receiver

\* lines 491-564 and 920-937: one call of mine_work_static.  A solution is sent; when
\* the send fails the function returns Ok(None) at line 527, before the statistics; the
\* loop logs what the call returned and goes round again.
closed_loop_mine ==
    /\ tasks[1].pc = "mine"
    /\ \E has_error \in BOOLEAN :
         LET found == tasks[1].work.meets /\ ~has_error
             sent == found /\ SendSucceeds(channel)
             failed == found /\ ~SendSucceeds(channel)
         IN /\ channel' = IF sent THEN [channel EXCEPT !.buffer = Append(@, tasks[1].work.id)]
                          ELSE channel
            /\ devices' = IF failed THEN devices
                          ELSE [devices EXCEPT ![1].total_hashes = @ + 1]
            /\ history' = [history EXCEPT
                              !.sends = IF found THEN @ + 1 ELSE @,
                              !.failed = IF failed THEN @ + 1 ELSE @,
                              !.after_failure =
                                  IF found /\ history.failed > 0 THEN @ + 1 ELSE @]
    /\ tasks' = [tasks EXCEPT ![1].pc = "check", ![1].work = NoWork]
    /\ UNCHANGED <<collector, collected_results, owner, queue>>

NextClosed ==
    \/ closed_submit_work
    \/ drop_receiver
    \/ closed_recv
    \/ closed_stop
    \/ closed_loop_check
    \/ closed_loop_dequeue
    \/ closed_loop_mine

SpecClosed == InitClosed /\ [][NextClosed]_vars

\* C34: when a send on the report channel fails because the channel is closed, the loop
\* does not crash and the device does not enter an error state; the loop stops
\* reporting, attempting no further send, and returns.
C34_ClosedChannelEndsReporting ==
    /\ devices[1].status # "Error"
    /\ tasks[1].pc \in {"check", "dequeue", "mine", "stopped"}
    /\ history.failed > 0 =>
          /\ history.after_failure = 0
          /\ tasks[1].pc = "stopped"
\* ======================================================================== core start and stop
\* SoftwareMiningCore::start and stop (core.rs lines 554-608) called in any order on a
\* core that initialize has given its devices.
MaxCoreTasks == 4

\* lines 588-608: the flag is lowered and stop() is called on every device (device.rs
\* lines 961-994: stop flag, abort of the loop the handle names, status Idle, queue
\* cleared)
core_stop_all ==
    /\ owner.pc = "idle"
    /\ Len(tasks) < MaxCoreTasks
    /\ collector' = [collector EXCEPT !.running = FALSE]
    /\ devices' = [d \in DOMAIN devices |->
                      [devices[d] EXCEPT
                          !.mining_stop_signal = TRUE,
                          !.mining_task_handle = 0,
                          !.status = "Idle",
                          !.work_queue = QueueClearStale(@, StopValidVersion(@)).q]]
    /\ tasks' = [k \in DOMAIN tasks |->
                    IF \E d \in DOMAIN devices : devices[d].mining_task_handle = k
                    THEN [tasks[k] EXCEPT !.aborted = TRUE] ELSE tasks[k]]
    /\ history' = Finished(history, "core_stop", 0, Ok, <<>>)
    /\ UNCHANGED <<channel, collected_results, owner, queue>>

NextCoreStart ==
    \/ core_initialize
    \/ core_start_all
    \/ core_stop_all
    \/ core_submit_all
    \/ collect_results
    \/ core_get_stats

SpecCoreStart == InitConfig /\ [][NextCoreStart]_vars

\* start() is called in this step
CoreStartStep == history'.last.op = "core_start" /\ history' # history

\* C35: start() called while the core is running returns a runtime error, starts no
\* device again (no device field changes and no loop is spawned), spawns no further
\* collector task, and leaves the running flag true.
C35_StartWhileRunningRefused ==
    [][(collector.running /\ CoreStartStep) =>
          /\ history'.last.ret = Err("runtime")
          /\ devices' = devices
          /\ tasks' = tasks
          /\ collector' = collector
          /\ collector'.running]_vars

\* a core that was started, stopped and started again has refused a further start: it
\* runs, and no loop beyond the four of the two starts exists
C35_Witness ==
    /\ JustReturned("core_start")
    /\ history.last.ret = Err("runtime")
    /\ collector.running
    /\ collector.pc = "recv"
    /\ Len(devices) = 2
    /\ Len(tasks) = 4
    /\ \A d \in DOMAIN devices : devices[d].status = "Running"

\* device d holds a loop: its handle names a loop that has not ended and has not been
\* aborted
HoldsActiveLoop(d) ==
    /\ devices[d].mining_task_handle # 0
    /\ IsActiveLoop(tasks[devices[d].mining_task_handle])

\* a loop of device d is taking a job from the queue or working on one
ConsumingJobs(d) ==
    \E k \in ActiveLoops(d) : tasks[k].pc \in {"dequeue", "mine", "stats"}

\* C36: between the calls of initialize, start, stop, restart and reset the status of
\* the device is Running exactly when the device holds an active loop; in particular
\* initialize does not make a device Idle whose loop is still running, and the status
\* is never Idle or Uninitialized while a loop is consuming jobs.
C36_StatusMatchesLoop ==
    owner.pc = "idle" =>
        \A d \in DeviceIds :
           /\ devices[d].status = "Running" <=> HoldsActiveLoop(d)
           /\ ConsumingJobs(d) => devices[d].status \notin {"Idle", "Uninitialized"}
\* ======================================================================== queue statistics
\* LockFreeWorkQueue::get_stats (concurrent_optimization.rs lines 236-247) called while
\* other threads are inside enqueue_work and dequeue_work; nothing is cleared, and the
\* one job enqueued never finds the queue full.
MaxStatsJobs == 1

NextStats ==
    \/ \E t \in Threads : enqueue_work_push(t, MaxStatsJobs)
    \/ \E t \in Threads : enqueue_work_active(t)
    \/ \E t \in Threads : enqueue_work_total(t)
    \/ \E t \in Threads : dequeue_work_pop(t)
    \/ \E t \in Threads : dequeue_work_total(t)
    \/ \E t \in Threads : get_stats_begin(t)
    \/ \E t \in Threads : get_stats_read(t)

SpecStats == Init /\ [][NextStats]_vars

\* thread t holds the snapshot its get_stats call returned
HoldsStats(t) == pc[t] = "idle" /\ call[t].op = "get_stats"

\* C37: every snapshot get_stats returns, also one taken while other threads are in the
\* middle of enqueue_work and dequeue_work, has total_dequeued <= total_enqueued and
\* pending_count <= max_queue_size; a snapshot taken while no call is in progress, with
\* nothing cleared before, has pending_count = total_enqueued - total_dequeued.
C37_StatsConsistent ==
    \A t \in Threads :
        HoldsStats(t) =>
            /\ ret[t].val.total_dequeued <= ret[t].val.total_enqueued
            /\ ret[t].val.pending_count <= ret[t].val.max_queue_size
            /\ (AllIdle /\ call[t].quiet) =>
                  ret[t].val.pending_count
                     = ret[t].val.total_enqueued - ret[t].val.total_dequeued
\* ======================================================================== active count
\* active_work_count under enqueue_work, dequeue_work, submit_result and
\* clear_stale_work called from several threads (concurrent_optimization.rs lines
\* 139-233).  The counter is an AtomicUsize; a value below 0 here is the value
\* 2^64 + n the program holds after fetch_sub has wrapped.
MaxActiveJobs == 2

\* a queue of capacity 1
InitActive == Init /\ max_queue_size = 1

NextActive ==
    \/ \E t \in Threads : enqueue_work_push(t, MaxActiveJobs)
    \/ \E t \in Threads : enqueue_work_active(t)
    \/ \E t \in Threads : enqueue_work_total(t)
    \/ \E t \in Threads : enqueue_work_full(t)
    \/ \E t \in Threads : dequeue_work_pop(t)
    \/ \E t \in Threads : dequeue_work_total(t)
    \/ \E t \in Threads : submit_result_push(t)
    \/ \E t \in Threads : submit_result_active(t)
    \/ \E t \in Threads : clear_stale_work_begin(t)
    \/ \E t \in Threads : clear_stale_work_pop(t)
    \/ \E t \in Threads : clear_stale_work_stale(t)
    \/ \E t \in Threads : clear_stale_work_push(t)
    \/ \E t \in Threads : clear_stale_work_full(t)

SpecActive == InitActive /\ [][NextActive]_vars

\* C38: for any sequence of enqueue_work, dequeue_work, submit_result and
\* clear_stale_work calls active_work_count is never below zero in any reachable state,
\* that is, fetch_sub never wraps it around, and between the calls it equals the
\* successful enqueues less the results submitted less the jobs purged.
C38_ActiveCountNeverUnderflows ==
    /\ active_work_count >= 0
    /\ AllIdle =>
          active_work_count = Len(accepted) - Len(submitted) - Len(dropped)
\* ======================================================================== accepted count
\* SoftwareMiningCore::get_stats (core.rs lines 759-765) while the collector task of
\* start_result_collection (lines 436-454) runs: update_stats writes stats under the
\* write lock and returns, get_stats then takes the read lock and clones stats; the
\* collector takes the write lock for its own increment whenever it is free.
MaxAcceptedSends == 2

InitCoreAccepted ==
    /\ QueueUnused
    /\ devices = [d \in 1..NumDevices |-> [atomic_stats |-> RatedStats(0)]]
    /\ tasks = <<>>
    /\ channel = <<>>
    /\ collector = [StatsCore(Some(0)) EXCEPT !.pc = "recv"]
    /\ collected_results = <<>>
    /\ owner = IdleUpdater
    /\ history = [now |-> 0, updates |-> 0, quiet |-> FALSE, op |-> "none", ret |-> Unit,
                  currents |-> Frac(0, 1), sends |-> 0, summed |-> 0]

\* device.rs lines 524-528 and 772-773: the loop of device d sends a solution
loop_send_result(d) ==
    /\ d \in DOMAIN devices
    /\ history.sends < MaxAcceptedSends
    /\ channel' = Append(channel, Solution(Job(1, 0, "any"), d, history.sends + 1))
    /\ history' = [history EXCEPT !.sends = @ + 1, !.quiet = FALSE]
    /\ UNCHANGED <<devices, tasks, collector, collected_results, owner, queue>>

\* lines 443-446: stats_guard.accepted_work += 1
CollectorCounts(accepted_work) == accepted_work + 1

\* lines 437-446: recv() yields the oldest result; the collector adds 1 to the accepted
\* count of stats under the write lock
collector_count ==
    /\ collector.pc = "recv"
    /\ channel # <<>>
    /\ collector' = [collector EXCEPT !.pc = "push", !.result = Head(channel),
                                      !.stats.accepted_work = CollectorCounts(@)]
    /\ channel' = Tail(channel)
    /\ UNCHANGED <<devices, tasks, collected_results, owner, history, queue>>

\* lines 322-345: update_stats writes stats under the write lock and returns
core_stats_write ==
    /\ owner.pc = "stats_store"
    /\ collector' =
         [collector EXCEPT !.stats =
             [total_hashrate |-> owner.total_hashrate,
              average_hashrate |->
                  CoreAverageHashrate(owner.total_hashes, owner.total_hashrate,
                                      owner.current_time, collector.start_time),
              accepted_work |-> owner.total_accepted,
              rejected_work |-> owner.total_rejected,
              hardware_errors |-> owner.total_errors]]
    /\ owner' = [owner EXCEPT !.pc = "stats_read"]
    /\ UNCHANGED <<devices, tasks, channel, collected_results, history, queue>>

\* lines 761-764: get_stats clones stats under the read lock and returns the copy
core_stats_read ==
    /\ owner.pc = "stats_read"
    /\ history' = [history EXCEPT !.op = "core_get_stats", !.ret = collector.stats,
                                  !.summed = owner.total_accepted]
    /\ owner' = IdleUpdater
    /\ UNCHANGED <<devices, tasks, channel, collector, collected_results, queue>>

NextCoreAccepted ==
    \/ \E d \in DeviceSlots : loop_send_result(d)
    \/ \E d \in DeviceSlots : stats_increment_accepted(d)
    \/ collector_count
    \/ collector_push
    \/ core_update_stats
    \/ \E d \in DeviceSlots : core_stats_device(d)
    \/ core_stats_write
    \/ core_stats_read

SpecCoreAccepted == InitCoreAccepted /\ [][NextCoreAccepted]_vars

\* C39: the accepted count get_stats returns is the sum of the devices' accepted
\* counters as update_stats read them during that call, whatever the collector task,
\* which writes the same field of stats, does in between.
C39_AcceptedIsSumOfDevices ==
    (owner.pc = "idle" /\ history.op = "core_get_stats") =>
        history.ret.accepted_work = history.summed
\* ======================================================================== consumption
\* The loops of start() and start_continuous_mining() (device.rs lines 912-945 and
\* 727-786) as tasks of a runtime that polls every task that can run: a loop that can
\* take a step does so in the end.  The continuous loop never leaves its job; its
\* batches are recorded up to MaxConsumeRounds, after which a batch leaves the counters
\* and the channel as they are and the loop goes round all the same.
MaxConsumeRounds == 1

consume_batch(k) == ContinuousBatch(k, MaxConsumeRounds)

\* lines 749-786, past the recorded batches
continuous_spin(k) ==
    /\ k \in DOMAIN tasks
    /\ tasks[k].pc = "batch"
    /\ history.rounds >= MaxConsumeRounds
    /\ tasks' = [tasks EXCEPT ![k].pc = "check"]
    /\ UNCHANGED <<devices, channel, collector, collected_results, owner, history, queue>>

\* a step of loop k, or of the runtime dropping it at an await after abort()
LoopTurn(k) ==
    \/ task_check(k)
    \/ task_dequeue(k)
    \/ task_wake(k)
    \/ task_cancel(k)
    \/ task_mine(k)
    \/ task_stats(k)
    \/ continuous_check(k)
    \/ continuous_switch(k)
    \/ consume_batch(k)
    \/ continuous_hashes(k)
    \/ continuous_spin(k)

NextConsume ==
    \/ \E d \in DeviceSlots :
        \/ start(d)
        \/ start_continuous_mining(d)
        \/ stop_signal(d)
        \/ submit_versioned_work(d)
    \/ stop_abort
    \/ stop_clear
    \/ \E k \in TaskSlots :
        \/ task_check(k)
        \/ task_dequeue(k)
        \/ task_wake(k)
        \/ task_cancel(k)
        \/ task_mine(k)
        \/ task_stats(k)
        \/ continuous_check(k)
        \/ continuous_switch(k)
        \/ consume_batch(k)
        \/ continuous_hashes(k)
        \/ continuous_spin(k)

SpecConsume ==
    /\ InitFaultless
    /\ [][NextConsume]_vars
    /\ \A k \in TaskSlots : WF_vars(LoopTurn(k))

\* job j waits in the queue of device d
Pending(d, j) ==
    /\ d \in DeviceIds
    /\ \E i \in DOMAIN devices[d].work_queue.pending_work :
          devices[d].work_queue.pending_work[i].id = j

\* device d is not Running, or stop() has been called on it
Halted(d) ==
    \/ d \notin DeviceIds
    \/ devices[d].status # "Running"
    \/ devices[d].mining_stop_signal
    \/ owner.pc \in {"stop_abort", "stop_clear"} /\ owner.dev = d

\* C40: with the loops of the device scheduled fairly, a job that waits in the queue of
\* a Running device leaves the queue in the end, dequeued by a loop of the device,
\* unless the device is stopped or the job is purged first.  In this specification
\* only the loops take jobs from the queue.
C40_PendingWorkConsumed ==
    \A j \in 1..MaxDeviceJobs :
        (Pending(1, j) /\ ~Halted(1)) ~> (~Pending(1, j) \/ Halted(1))

\* the second of two jobs has been taken from the queue by a loop of the Running device
\* while the first is still being worked on by another
C40_Witness ==
    /\ devices[1].status = "Running"
    /\ ~devices[1].mining_stop_signal
    /\ devices[1].work_queue.pending_work = <<>>
    /\ devices[1].work_queue.total_dequeued = 2
    /\ \E k \in DOMAIN tasks : tasks[k].work.id = 2 /\ IsActiveLoop(tasks[k])

====
